---- MODULE Spec2Model ----
(***************************************************************************)
(* A model of the 8080 core of mdlcrz/space-invaders: the run() loop of    *)
(* src/emulator.rs with its decoder, the program status word, the memory   *)
(* image, the I/O port bank and the interrupt timers.                      *)
(*                                                                         *)
(* One iteration of run() is two steps: Fetch (read three bytes at PC and  *)
(* do the interrupt check, lines 92-105) and Execute (decode and the match *)
(* arm of the decoded instruction, lines 107-930).                         *)
(***************************************************************************)
EXTENDS Integers, Sequences, FiniteSets, TLC

VARIABLES
    cpu_state,            \* Emulator.cpu_state: bc, de, hl, psw, pc, sp, inte
    memory,               \* Emulator.memory: the bytes that are not 0, by address
    io_ports,             \* Emulator.io_ports
    interrupt_timers,     \* Emulator.interrupt_timers
    program_counter,      \* run(): let program_counter (line 92)
    instruction,          \* run(): let mut instruction = [0u8; 3] (line 93)
    decoded_instruction,  \* run(): let decoded_instruction (line 107)
    at,                   \* where run() is: "fetch", "execute", "returned", "panicked"
    injected,             \* whether the last interrupt check put an RST in the buffer
    cycles,               \* the sum of the cycle deltas reported to the timers so far
    fired                 \* the numbers of the sources that tripped so far, in order

vars == <<cpu_state, memory, io_ports, interrupt_timers, program_counter,
          instruction, decoded_instruction, at, injected, cycles, fired>>

-----------------------------------------------------------------------------
(* Bounds of the model.                                                    *)

\* Fetch is not taken once this many cycles were reported.
MaxCycles == 33600

\* The scheduler-only specifications stop advancing at this total.
MaxTotal == 67000

-----------------------------------------------------------------------------
(* Machine integers.                                                       *)

Byte == 0..255

\* u8 and u16 arithmetic wraps (wrapping_add, wrapping_sub, overflowing_*).
Wrap8(n)  == n % 256
Wrap16(n) == n % 65536

Bit(x, i) == (x \div (2^i)) % 2

And8(x, y) ==
    LET b(i) == (Bit(x, i) * Bit(y, i)) * (2^i)
    IN  b(0) + b(1) + b(2) + b(3) + b(4) + b(5) + b(6) + b(7)

Or8(x, y) ==
    LET b(i) == (Bit(x, i) + Bit(y, i) - Bit(x, i) * Bit(y, i)) * (2^i)
    IN  b(0) + b(1) + b(2) + b(3) + b(4) + b(5) + b(6) + b(7)

Xor8(x, y) ==
    LET b(i) == ((Bit(x, i) + Bit(y, i)) % 2) * (2^i)
    IN  b(0) + b(1) + b(2) + b(3) + b(4) + b(5) + b(6) + b(7)

Not8(x)    == 255 - x

\* u8::count_ones
CountOnes(x) ==
    Bit(x, 0) + Bit(x, 1) + Bit(x, 2) + Bit(x, 3)
  + Bit(x, 4) + Bit(x, 5) + Bit(x, 6) + Bit(x, 7)

-----------------------------------------------------------------------------
(* flag.rs, program_state_word.rs                                          *)

FlagCarry  == 1
FlagParity == 4
FlagZero   == 64
FlagSign   == 128

ProgramStateWordNew == [flags |-> 2, a |-> 0]

PswGet(psw) == psw.flags * 256 + psw.a

PswSet(psw, value) == [flags |-> value \div 256, a |-> value % 256]

IsFlagSet(psw, flag) == And8(psw.flags, flag) # 0

GetFlag(psw, flag) == IF IsFlagSet(psw, flag) THEN 1 ELSE 0

\* set_flag with the parity flag set on an odd number of 1 bits
ShouldSetFlagOddParity(flag, value) ==
    CASE flag = FlagCarry  -> value # 0
      [] flag = FlagParity -> CountOnes(value) % 2 = 1
      [] flag = FlagZero   -> value = 0
      [] flag = FlagSign   -> And8(value, 128) = 128

ShouldSetFlag(flag, value) ==
    CASE flag = FlagCarry  -> value # 0
      [] flag = FlagParity -> CountOnes(value) % 2 = 0
      [] flag = FlagZero   -> value = 0
      [] flag = FlagSign   -> And8(value, 128) = 128

SetFlag(psw, flag, value) ==
    IF ShouldSetFlag(flag, value)
    THEN [psw EXCEPT !.flags = Or8(@, flag)]
    ELSE [psw EXCEPT !.flags = And8(@, Not8(flag))]

SetCarry(psw, value)  == SetFlag(psw, FlagCarry, value)
SetParity(psw, value) == SetFlag(psw, FlagParity, value)
SetZero(psw, value)   == SetFlag(psw, FlagZero, value)
SetSign(psw, value)   == SetFlag(psw, FlagSign, value)

\* set_parity, set_zero, set_sign of one value, in the order every arm uses
SetPZS(psw, value) == SetSign(SetZero(SetParity(psw, value), value), value)

\* set_carry, then set_parity, set_zero, set_sign
SetCPZS(psw, cy, value) == SetPZS(SetCarry(psw, cy), value)

-----------------------------------------------------------------------------
(* register_pair.rs, pointer_register.rs, cpu_state.rs                     *)

RegisterPairNew == [rh |-> 0, rl |-> 0]

PairGet(p) == p.rh * 256 + p.rl

PairSet(value) == [rh |-> value \div 256, rl |-> value % 256]

PointerAdd(register, other) == Wrap16(register + other)

PointerSub(register, other) == Wrap16(register - other + 65536)

CpuStateNew ==
    [bc |-> RegisterPairNew, de |-> RegisterPairNew, hl |-> RegisterPairNew,
     psw |-> ProgramStateWordNew, pc |-> 0, sp |-> 0, inte |-> FALSE]

-----------------------------------------------------------------------------
(* memory.rs: vec![0; 0x5000]. The model keeps the bytes that are not 0;   *)
(* an address outside DOMAIN memory holds 0.                               *)

MemorySize == 20480

MemoryNew == [x \in {} |-> 0]

\* the slice memory[address..address + len] exists
InRange(address, len) == address + len <= MemorySize

Read8(mem, address) == IF address \in DOMAIN mem THEN mem[address] ELSE 0

Read16(mem, address) == Read8(mem, address) + 256 * Read8(mem, address + 1)

Write8(mem, address, data) ==
    [x \in (IF data = 0 THEN DOMAIN mem \ {address} ELSE DOMAIN mem \cup {address})
        |-> IF x = address THEN data ELSE mem[x]]

Write16(mem, address, data) ==
    Write8(Write8(mem, address, data % 256), address + 1, data \div 256)

\* Memory::write(0, bytes) of load_rom: the bytes of the file from address 0
LoadRom(bytes) ==
    [x \in {i - 1 : i \in {j \in 1..Len(bytes) : bytes[j] # 0}} |-> bytes[x + 1]]

-----------------------------------------------------------------------------
(* interrupt_timer.rs                                                      *)

Period == 33334

\* self.cycles += other (line 53) is a u16 addition: from an accumulator below
\* the period, a delta up to this one cannot overflow it.
NoOverflowDelta == 65535 - (Period - 1)

InterruptTimerNew(number, cyc) ==
    [number |-> number, cycles |-> cyc, interrupt |-> FALSE]

\* InterruptTimers::new() with the preload on source 2
InterruptTimersNewSwapped ==
    [number |-> 0, interrupt |-> FALSE,
     timers |-> <<InterruptTimerNew(1, 0), InterruptTimerNew(2, 16667)>>]

InterruptTimersNew ==
    [number |-> 0, interrupt |-> FALSE,
     timers |-> <<InterruptTimerNew(1, 16667), InterruptTimerNew(2, 0)>>]

\* InterruptTimer += other with > for >=
TimerAddAssignStrict(timer, other) ==
    LET sum == Wrap16(timer.cycles + other)
    IN  IF sum > Period
        THEN [timer EXCEPT !.cycles = sum - Period, !.interrupt = TRUE]
        ELSE [timer EXCEPT !.cycles = sum]

\* InterruptTimer += other with the accumulator cleared on a trip
TimerAddAssignReset(timer, other) ==
    LET sum == Wrap16(timer.cycles + other)
    IN  IF sum >= Period
        THEN [timer EXCEPT !.cycles = 0, !.interrupt = TRUE]
        ELSE [timer EXCEPT !.cycles = sum]

\* InterruptTimer += other. The u16 sum wraps in a release build.
TimerAddAssign(timer, other) ==
    LET sum == Wrap16(timer.cycles + other)
    IN  IF sum >= Period
        THEN [timer EXCEPT !.cycles = sum - Period, !.interrupt = TRUE]
        ELSE [timer EXCEPT !.cycles = sum]

\* the body of the for loop of InterruptTimers += other, for the timer at index i
TimersStep(T, i, other) ==
    LET timer == TimerAddAssign(T.timers[i], other)
    IN  IF timer.interrupt
        THEN [T EXCEPT !.interrupt = TRUE,
                       !.number    = timer.number,
                       !.timers[i] = [timer EXCEPT !.interrupt = FALSE]]
        ELSE [T EXCEPT !.timers[i] = timer]

\* InterruptTimers += other with the timers taken last to first
TimersAddAssignReversed(T, other) == TimersStep(TimersStep(T, 2, other), 1, other)

\* InterruptTimers += other: the timers in the order of the array
TimersAddAssign(T, other) == TimersStep(TimersStep(T, 1, other), 2, other)

\* the numbers of the timers whose add_assign set their interrupt flag, in order
TrippedBy(T, other) ==
    LET trip(i) == IF TimerAddAssign(T.timers[i], other).interrupt
                   THEN <<T.timers[i].number>> ELSE <<>>
    IN  trip(1) \o trip(2)

-----------------------------------------------------------------------------
(* io_ports.rs                                                             *)

IOPortsNew ==
    [input  |-> [input0 |-> 14, input1 |-> 0, input2 |-> 0],
     output |-> [shift_amount |-> 0, sound1 |-> 0, sound2 |-> 0, watchdog |-> 0],
     shift_register |-> 0]

ReadPorts == {0, 1, 2, 3}

WritePorts == {2, 3, 4, 5, 6}

\* IOPorts::read for a port of ReadPorts
IOPortsRead(io, port) ==
    CASE port = 0 -> io.input.input0
      [] port = 1 -> io.input.input1
      [] port = 2 -> io.input.input2
      [] port = 3 -> (io.shift_register \div (2^(8 - io.output.shift_amount))) % 256

\* IOPorts::write with port 4 feeding the low byte of the shift register
IOPortsWriteFeedsLow(io, port, value) ==
    CASE port = 2 -> [io EXCEPT !.output.shift_amount = And8(value, 7)]
      [] port = 3 -> [io EXCEPT !.output.sound1 = value]
      [] port = 4 -> [io EXCEPT !.shift_register = ((@ * 256) % 65536) + value]
      [] port = 5 -> [io EXCEPT !.output.sound2 = value]
      [] port = 6 -> [io EXCEPT !.output.watchdog = value]

\* IOPorts::write with port 2 stored in the input latch of the same number
IOPortsWriteToInput2(io, port, value) ==
    CASE port = 2 -> [io EXCEPT !.input.input2 = And8(value, 7)]
      [] port = 3 -> [io EXCEPT !.output.sound1 = value]
      [] port = 4 -> [io EXCEPT !.shift_register = (@ \div 256) + 256 * value]
      [] port = 5 -> [io EXCEPT !.output.sound2 = value]
      [] port = 6 -> [io EXCEPT !.output.watchdog = value]

\* IOPorts::write for a port of WritePorts
IOPortsWrite(io, port, value) ==
    CASE port = 2 -> [io EXCEPT !.output.shift_amount = And8(value, 7)]
      [] port = 3 -> [io EXCEPT !.output.sound1 = value]
      [] port = 4 -> [io EXCEPT !.shift_register = (@ \div 256) + 256 * value]
      [] port = 5 -> [io EXCEPT !.output.sound2 = value]
      [] port = 6 -> [io EXCEPT !.output.watchdog = value]

-----------------------------------------------------------------------------
(* decoder.rs. An instruction is a record: op is the variant of the        *)
(* Instruction enum, the other fields are the variant's fields.            *)

U16FromLeBytes(lo, hi) == lo + 256 * hi

\* the rotate arm with no case for 0b11 (RAR)
DecodeRotateNoRar(opcode) ==
    CASE (opcode \div 8) % 4 = 0 -> [op |-> "Rlc"]
      [] (opcode \div 8) % 4 = 1 -> [op |-> "Rrc"]
      [] (opcode \div 8) % 4 = 2 -> [op |-> "Ral"]
      [] OTHER                    -> [op |-> "Invalid"]

DecodeRotate(opcode) ==
    CASE (opcode \div 8) % 4 = 0 -> [op |-> "Rlc"]
      [] (opcode \div 8) % 4 = 1 -> [op |-> "Rrc"]
      [] (opcode \div 8) % 4 = 2 -> [op |-> "Ral"]
      [] (opcode \div 8) % 4 = 3 -> [op |-> "Rar"]

DecodeDirect(opcode, exp) ==
    CASE (opcode \div 8) % 4 = 0 -> [op |-> "Shld", exp |-> exp]
      [] (opcode \div 8) % 4 = 1 -> [op |-> "Lhld", exp |-> exp]
      [] (opcode \div 8) % 4 = 2 -> [op |-> "Sta",  exp |-> exp]
      [] (opcode \div 8) % 4 = 3 -> [op |-> "Lda",  exp |-> exp]

AluRegOps == <<"Add", "Adc", "Sub", "Sbb", "Ana", "Xra", "Ora", "Cmp">>

AluImmOps == <<"Adi", "Aci", "Sui", "Sbi", "Ani", "Xri", "Ori", "Cpi">>

ReturnOps == <<"Rnz", "Rz", "Rnc", "Rc", "Rpo", "Rpe", "Rp", "Rm">>

JumpOps == <<"Jnz", "Jz", "Jnc", "Jc", "Jpo", "Jpe", "Jp", "Jm">>

CallOps == <<"Cnz", "Cz", "Cnc", "Cc", "Cpo", "Cpe", "Cp", "Cm">>

DecodeReturn(opcode) ==
    IF (opcode \div 8) % 8 = 1 /\ opcode % 2 = 1
    THEN [op |-> "Ret"]
    ELSE [op |-> ReturnOps[((opcode \div 8) % 8) + 1]]

DecodeJump(opcode, exp) ==
    IF (opcode \div 8) % 8 = 0 /\ opcode % 2 = 1
    THEN [op |-> "Jmp", exp |-> exp]
    ELSE [op |-> JumpOps[((opcode \div 8) % 8) + 1], exp |-> exp]

DecodeCall(opcode, sub) ==
    IF (opcode \div 8) % 8 = 1 /\ opcode % 2 = 1
    THEN [op |-> "Call", sub |-> sub]
    ELSE [op |-> CallOps[((opcode \div 8) % 8) + 1], sub |-> sub]

\* rp of PUSH and POP without the remapping of 0b11
StackPairNoRemap(opcode) == (opcode \div 16) % 4

\* rp of PUSH and POP: if rp == 0b11 { rp += 1; }
StackPair(opcode) ==
    IF (opcode \div 16) % 4 = 3 THEN 4 ELSE (opcode \div 16) % 4

\* decode(instruction): op "Invalid" stands for the panic of the last match arm
Decode(buf) ==
    LET opcode == buf[1]
        imm8   == buf[2]
        imm16  == U16FromLeBytes(buf[2], buf[3])
        rp     == (opcode \div 16) % 4
        reg    == (opcode \div 8) % 8
    IN
    CASE opcode = 0 -> [op |-> "Nop"]
      [] opcode \in {1, 17, 33, 49}   -> [op |-> "Lxi", rp |-> rp, data |-> imm16]
      [] opcode \in {2, 18}           -> [op |-> "Stax", rp |-> (opcode \div 16) % 2]
      [] opcode \in {3, 19, 35, 51}   -> [op |-> "Inx", rp |-> rp]
      [] opcode \in {4, 12, 20, 28, 36, 44, 52, 60} -> [op |-> "Inr", reg |-> reg]
      [] opcode \in {5, 13, 21, 29, 37, 45, 53, 61} -> [op |-> "Dcr", reg |-> reg]
      [] opcode \in {6, 14, 22, 30, 38, 46, 54, 62} ->
             [op |-> "Mvi", reg |-> reg, data |-> imm8]
      [] opcode \in {7, 15, 23, 31}   -> DecodeRotate(opcode)
      [] opcode \in {9, 25, 41, 57}   -> [op |-> "Dad", rp |-> rp]
      [] opcode \in {10, 26}          -> [op |-> "Ldax", rp |-> (opcode \div 16) % 2]
      [] opcode \in {11, 27, 43, 59}  -> [op |-> "Dcx", rp |-> rp]
      [] opcode \in {34, 42, 50, 58}  -> DecodeDirect(opcode, imm16)
      [] opcode = 39                  -> [op |-> "Daa"]
      [] opcode = 47                  -> [op |-> "Cma"]
      [] opcode \in {55, 63}          ->
             IF (opcode \div 8) % 2 = 0 THEN [op |-> "Stc"] ELSE [op |-> "Cmc"]
      [] opcode \in (64..117) \cup (119..127) ->
             [op |-> "Mov", dst |-> (opcode \div 8) % 8, src |-> opcode % 8]
      [] opcode = 118                 -> [op |-> "Hlt"]
      [] opcode \in 128..191          ->
             [op |-> AluRegOps[((opcode \div 8) % 8) + 1], reg |-> opcode % 8]
      [] opcode \in {192, 200, 201, 208, 216, 224, 232, 240, 248} ->
             DecodeReturn(opcode)
      [] opcode \in {193, 209, 225, 241} -> [op |-> "Pop", rp |-> StackPair(opcode)]
      [] opcode \in {194, 195, 202, 210, 218, 226, 234, 242, 250} ->
             DecodeJump(opcode, imm16)
      [] opcode \in {196, 204, 205, 212, 220, 228, 236, 244, 252} ->
             DecodeCall(opcode, imm16)
      [] opcode \in {197, 213, 229, 245} -> [op |-> "Push", rp |-> StackPair(opcode)]
      [] opcode \in {198, 206, 214, 222, 230, 238, 246, 254} ->
             [op |-> AluImmOps[((opcode \div 8) % 8) + 1], data |-> imm8]
      [] opcode \in {199, 207, 215, 223, 231, 239, 247, 255} ->
             [op |-> "Rst", exp |-> (opcode \div 8) % 8]
      [] opcode \in {211, 219}        ->
             IF (opcode \div 8) % 2 = 0
             THEN [op |-> "Out", exp |-> imm8]
             ELSE [op |-> "In",  exp |-> imm8]
      [] opcode = 227                 -> [op |-> "Xthl"]
      [] opcode = 233                 -> [op |-> "Pchl"]
      [] opcode = 235                 -> [op |-> "Xchg"]
      [] opcode \in {243, 251}        ->
             IF (opcode \div 8) % 2 = 0 THEN [op |-> "Di"] ELSE [op |-> "Ei"]
      [] opcode = 249                 -> [op |-> "Sphl"]
      [] OTHER                        -> [op |-> "Invalid"]

\* disassembler::disassemble: decode, print the trace line, return the instruction
Disassemble(pc, buf) == Decode(buf)

-----------------------------------------------------------------------------
(* emulator.rs. E is the emulator while one instruction executes: the four *)
(* fields of Emulator, the outcome of the match arm ("continue": the loop  *)
(* goes on, "return": run() returned Ok(()), "panic": the thread panicked) *)
(* and the cycle deltas the arm reported to the timers.                    *)

Panic(E) == [E EXCEPT !.outcome = "panic"]

\* self.cpu_state.pc += n
PcAdd(E, n) == [E EXCEPT !.cpu_state.pc = PointerAdd(@, n)]

\* self.interrupt_timers += n
Tick(E, n) ==
    [E EXCEPT !.interrupt_timers = TimersAddAssign(@, n),
              !.reported = Append(@, n)]

HL(E) == PairGet(E.cpu_state.hl)

\* the memory access of register code 0b110 is inside the image
RegisterOk(E, reg) == reg # 6 \/ InRange(HL(E), 1)

GetRegister(E, reg) ==
    CASE reg = 0 -> E.cpu_state.bc.rh
      [] reg = 1 -> E.cpu_state.bc.rl
      [] reg = 2 -> E.cpu_state.de.rh
      [] reg = 3 -> E.cpu_state.de.rl
      [] reg = 4 -> E.cpu_state.hl.rh
      [] reg = 5 -> E.cpu_state.hl.rl
      [] reg = 6 -> Read8(E.memory, HL(E))
      [] reg = 7 -> E.cpu_state.psw.a

SetRegister(E, reg, value) ==
    CASE reg = 0 -> [E EXCEPT !.cpu_state.bc.rh = value]
      [] reg = 1 -> [E EXCEPT !.cpu_state.bc.rl = value]
      [] reg = 2 -> [E EXCEPT !.cpu_state.de.rh = value]
      [] reg = 3 -> [E EXCEPT !.cpu_state.de.rl = value]
      [] reg = 4 -> [E EXCEPT !.cpu_state.hl.rh = value]
      [] reg = 5 -> [E EXCEPT !.cpu_state.hl.rl = value]
      [] reg = 6 -> [E EXCEPT !.memory = Write8(@, HL(E), value)]
      [] reg = 7 -> [E EXCEPT !.cpu_state.psw.a = value]

GetRegisterPair(E, rp) ==
    CASE rp = 0 -> PairGet(E.cpu_state.bc)
      [] rp = 1 -> PairGet(E.cpu_state.de)
      [] rp = 2 -> PairGet(E.cpu_state.hl)
      [] rp = 3 -> E.cpu_state.sp
      [] rp = 4 -> PswGet(E.cpu_state.psw)

SetRegisterPair(E, rp, value) ==
    CASE rp = 0 -> [E EXCEPT !.cpu_state.bc = PairSet(value)]
      [] rp = 1 -> [E EXCEPT !.cpu_state.de = PairSet(value)]
      [] rp = 2 -> [E EXCEPT !.cpu_state.hl = PairSet(value)]
      [] rp = 3 -> [E EXCEPT !.cpu_state.sp = value]
      [] rp = 4 -> [E EXCEPT !.cpu_state.psw = PswSet(@, value)]

\* the two bytes at SP are inside the image
SpOk(E) == InRange(E.cpu_state.sp, 2)

ReadSp(E) == Read16(E.memory, E.cpu_state.sp)

WriteSp(E, data) == [E EXCEPT !.memory = Write16(@, E.cpu_state.sp, data)]

\* if reg != 0b110 { timers += fast } else { timers += slow }
TickReg(E, reg, fast, slow) == IF reg # 6 THEN Tick(E, fast) ELSE Tick(E, slow)

Stc(E) == Tick(PcAdd([E EXCEPT !.cpu_state.psw = SetCarry(@, 1)], 1), 4)

\* set_carry(!get_carry()): the u8 complement of 0 or 1
Cmc(E) ==
    Tick(PcAdd([E EXCEPT !.cpu_state.psw =
                    SetCarry(@, Not8(GetFlag(@, FlagCarry)))], 1), 4)

\* an Inr arm that sets the carry flag from the overflow of the increment
InrSetsCarry(E, reg) ==
    IF ~RegisterOk(E, reg) THEN Panic(E)
    ELSE LET register == Wrap8(GetRegister(E, reg) + 1)
             E1 == SetRegister(E, reg, register)
             E2 == [E1 EXCEPT !.cpu_state.psw =
                        SetCPZS(@, IF register = 0 THEN 1 ELSE 0, register)]
         IN  TickReg(PcAdd(E2, 1), reg, 5, 10)

Inr(E, reg) ==
    IF ~RegisterOk(E, reg) THEN Panic(E)
    ELSE LET register == Wrap8(GetRegister(E, reg) + 1)
             E1 == SetRegister(E, reg, register)
             E2 == [E1 EXCEPT !.cpu_state.psw = SetPZS(@, register)]
         IN  TickReg(PcAdd(E2, 1), reg, 5, 10)

Dcr(E, reg) ==
    IF ~RegisterOk(E, reg) THEN Panic(E)
    ELSE LET register == Wrap8(GetRegister(E, reg) + 255)
             E1 == SetRegister(E, reg, register)
             E2 == [E1 EXCEPT !.cpu_state.psw = SetPZS(@, register)]
         IN  TickReg(PcAdd(E2, 1), reg, 5, 10)

Cma(E) == Tick(PcAdd([E EXCEPT !.cpu_state.psw.a = Not8(@)], 1), 4)

\* unimplemented!("DAA")
\* a Daa arm that does nothing but step over the instruction
DaaNoOp(E) == Tick(PcAdd(E, 1), 4)

Daa(E) == Panic(E)

Nop(E) == Tick(PcAdd(E, 1), 4)

\* a Mov arm that also sets P, Z, S from the byte it moved
MovSetsFlags(E, dst, src) ==
    IF ~RegisterOk(E, src) \/ ~RegisterOk(E, dst) THEN Panic(E)
    ELSE LET E1 == PcAdd(SetRegister(E, dst, GetRegister(E, src)), 1)
             E2 == [E1 EXCEPT !.cpu_state.psw = SetPZS(@, GetRegister(E, src))]
         IN  IF dst # 6 /\ src # 6 THEN Tick(E2, 5) ELSE Tick(E2, 7)

Mov(E, dst, src) ==
    IF ~RegisterOk(E, src) \/ ~RegisterOk(E, dst) THEN Panic(E)
    ELSE LET E1 == PcAdd(SetRegister(E, dst, GetRegister(E, src)), 1)
         IN  IF dst # 6 /\ src # 6 THEN Tick(E1, 5) ELSE Tick(E1, 7)

Stax(E, rp) ==
    IF ~InRange(GetRegisterPair(E, rp), 1) THEN Panic(E)
    ELSE Tick(PcAdd([E EXCEPT !.memory =
             Write8(@, GetRegisterPair(E, rp), E.cpu_state.psw.a)], 1), 7)

Ldax(E, rp) ==
    IF ~InRange(GetRegisterPair(E, rp), 1) THEN Panic(E)
    ELSE Tick(PcAdd([E EXCEPT !.cpu_state.psw.a =
             Read8(E.memory, GetRegisterPair(E, rp))], 1), 7)

\* the accumulator and the four flags of an arithmetic arm, from (acc, cy)
StoreAcc(E, acc, cy) ==
    [E EXCEPT !.cpu_state.psw = SetCPZS([@ EXCEPT !.a = acc], cy, acc)]

CarryIn(E) == IF IsFlagSet(E.cpu_state.psw, FlagCarry) THEN 1 ELSE 0

\* the sum with the carry out taken from x + y alone
AddWithCarryLosesCarry(x, y, c) ==
    [acc |-> Wrap8(x + y + c), cy |-> IF x + y > 255 THEN 1 ELSE 0]

\* overflowing_add, carrying_add: the wrapped sum and the carry out
AddWithCarry(x, y, c) == [acc |-> Wrap8(x + y + c), cy |-> IF x + y + c > 255 THEN 1 ELSE 0]

\* overflowing_sub, borrowing_sub: the wrapped difference and the borrow out
SubWithBorrow(x, y, c) == [acc |-> Wrap8(x - y - c + 512), cy |-> IF x < y + c THEN 1 ELSE 0]

\* Add, Adc, Sub, Sbb, Ana, Xra, Ora, Cmp and their immediate forms:
\* the new accumulator and carry token, from the operand x
Alu(E, op, x) ==
    LET a == E.cpu_state.psw.a
    IN  CASE op \in {"Add", "Adi"} -> AddWithCarry(a, x, 0)
          [] op \in {"Adc", "Aci"} -> AddWithCarry(a, x, CarryIn(E))
          [] op \in {"Sub", "Sui", "Cmp", "Cpi"} -> SubWithBorrow(a, x, 0)
          [] op \in {"Sbb", "Sbi"} -> SubWithBorrow(a, x, CarryIn(E))
          [] op \in {"Ana", "Ani"} -> [acc |-> And8(a, x), cy |-> 0]
          [] op \in {"Xra", "Xri"} -> [acc |-> Xor8(a, x), cy |-> 0]
          [] op \in {"Ora", "Ori"} -> [acc |-> Or8(a, x),  cy |-> 0]

\* every operation, Cmp and Cpi included, writing the accumulator
AluStoreAlways(E, op, r) == StoreAcc(E, r.acc, r.cy)

\* Cmp and Cpi set the flags and leave the accumulator
AluStore(E, op, r) ==
    IF op \in {"Cmp", "Cpi"}
    THEN [E EXCEPT !.cpu_state.psw = SetCPZS(@, r.cy, r.acc)]
    ELSE StoreAcc(E, r.acc, r.cy)

AluReg(E, op, reg) ==
    IF ~RegisterOk(E, reg) THEN Panic(E)
    ELSE TickReg(PcAdd(AluStore(E, op, Alu(E, op, GetRegister(E, reg))), 1),
                 reg, 4, 7)

AluImm(E, op, data) == Tick(PcAdd(AluStore(E, op, Alu(E, op, data)), 2), 7)

\* the accumulator and the carry flag of a rotate
Rotate(E, acc, cy) ==
    Tick(PcAdd([E EXCEPT !.cpu_state.psw = SetCarry([@ EXCEPT !.a = acc], cy)], 1), 4)

Rlc(E) ==
    LET acc == E.cpu_state.psw.a
    IN  Rotate(E, Wrap8(acc * 2) + (acc \div 128), acc \div 128)

\* an Rrc arm that takes the carry from bit 7
RrcCarryFromBit7(E) ==
    LET acc == E.cpu_state.psw.a
    IN  Rotate(E, (acc \div 2) + 128 * (acc % 2), acc \div 128)

Rrc(E) ==
    LET acc == E.cpu_state.psw.a
    IN  Rotate(E, (acc \div 2) + 128 * (acc % 2), And8(acc, 1))

\* a Ral arm that rotates bit 7 into bit 0, as Rlc does
RalAsRlc(E) ==
    LET acc == E.cpu_state.psw.a
    IN  Rotate(E, Wrap8(acc * 2) + (acc \div 128), acc \div 128)

Ral(E) ==
    LET acc == E.cpu_state.psw.a
        cy  == GetFlag(E.cpu_state.psw, FlagCarry)
    IN  Rotate(E, Or8(Wrap8(acc * 2), cy), And8(acc, 128))

Rar(E) ==
    LET acc == E.cpu_state.psw.a
        cy  == GetFlag(E.cpu_state.psw, FlagCarry)
    IN  Rotate(E, Or8(acc \div 2, Wrap8(cy * 128)), And8(acc, 1))

Push(E, rp) ==
    LET register_pair == GetRegisterPair(E, rp)
        E1 == [E EXCEPT !.cpu_state.sp = PointerSub(@, 2)]
    IN  IF ~SpOk(E1) THEN Panic(E1)
        ELSE Tick(PcAdd(WriteSp(E1, register_pair), 1), 11)

Pop(E, rp) ==
    IF ~SpOk(E) THEN Panic(E)
    ELSE LET register_pair == ReadSp(E)
             E1 == [E EXCEPT !.cpu_state.sp = PointerAdd(@, 2)]
         IN  Tick(PcAdd(SetRegisterPair(E1, rp, register_pair), 1), 10)

\* a Dad arm that leaves the carry flag alone
DadKeepsCarry(E, rp) ==
    LET sum == HL(E) + GetRegisterPair(E, rp)
        E1  == [E EXCEPT !.cpu_state.hl = PairSet(Wrap16(sum))]
    IN  Tick(PcAdd(E1, 1), 10)

Dad(E, rp) ==
    LET sum == HL(E) + GetRegisterPair(E, rp)
        E1  == [E EXCEPT !.cpu_state.hl = PairSet(Wrap16(sum)),
                         !.cpu_state.psw = SetCarry(@, IF sum > 65535 THEN 1 ELSE 0)]
    IN  Tick(PcAdd(E1, 1), 10)

Inx(E, rp) ==
    Tick(PcAdd(SetRegisterPair(E, rp, Wrap16(GetRegisterPair(E, rp) + 1)), 1), 5)

Dcx(E, rp) ==
    Tick(PcAdd(SetRegisterPair(E, rp, Wrap16(GetRegisterPair(E, rp) + 65535)), 1), 5)

Xchg(E) ==
    Tick(PcAdd([E EXCEPT !.cpu_state.de = E.cpu_state.hl,
                         !.cpu_state.hl = E.cpu_state.de], 1), 4)

\* an Xthl arm that loads HL from the stack top and never stores the old HL
XthlLoadsOnly(E) ==
    IF ~SpOk(E) THEN Panic(E)
    ELSE Tick(PcAdd([E EXCEPT !.cpu_state.hl = PairSet(ReadSp(E))], 1), 18)

Xthl(E) ==
    IF ~SpOk(E) THEN Panic(E)
    ELSE LET tmp == ReadSp(E)
             E1  == WriteSp(E, HL(E))
         IN  Tick(PcAdd([E1 EXCEPT !.cpu_state.hl = PairSet(tmp)], 1), 18)

Sphl(E) == Tick(PcAdd([E EXCEPT !.cpu_state.sp = HL(E)], 1), 5)

Lxi(E, rp, data) == Tick(PcAdd(SetRegisterPair(E, rp, data), 3), 10)

Mvi(E, reg, data) ==
    IF ~RegisterOk(E, reg) THEN Panic(E)
    ELSE TickReg(PcAdd(SetRegister(E, reg, data), 2), reg, 7, 10)

Sta(E, exp) ==
    IF ~InRange(exp, 1) THEN Panic(E)
    ELSE Tick(PcAdd([E EXCEPT !.memory = Write8(@, exp, E.cpu_state.psw.a)], 3), 13)

Lda(E, exp) ==
    IF ~InRange(exp, 1) THEN Panic(E)
    ELSE Tick(PcAdd([E EXCEPT !.cpu_state.psw.a = Read8(E.memory, exp)], 3), 13)

\* a Shld arm over a write that checks the first byte of the word only
ShldChecksFirstByte(E, exp) ==
    IF ~InRange(exp, 1) THEN Panic(E)
    ELSE Tick(PcAdd([E EXCEPT !.memory = Write16(@, exp, HL(E))], 3), 16)

Shld(E, exp) ==
    IF ~InRange(exp, 2) THEN Panic(E)
    ELSE Tick(PcAdd([E EXCEPT !.memory = Write16(@, exp, HL(E))], 3), 16)

Lhld(E, exp) ==
    IF ~InRange(exp, 2) THEN Panic(E)
    ELSE Tick(PcAdd([E EXCEPT !.cpu_state.hl = PairSet(Read16(E.memory, exp))], 3), 16)

Pchl(E) == Tick([E EXCEPT !.cpu_state.pc = HL(E)], 5)

Jmp(E, exp) == Tick([E EXCEPT !.cpu_state.pc = exp], 10)

\* the flag tests with those of the parity arms exchanged
TakenParitySwapped(psw, op) ==
    CASE op \in {"Jc",  "Cc",  "Rc"}  ->  IsFlagSet(psw, FlagCarry)
      [] op \in {"Jnc", "Cnc", "Rnc"} -> ~IsFlagSet(psw, FlagCarry)
      [] op \in {"Jz",  "Cz",  "Rz"}  ->  IsFlagSet(psw, FlagZero)
      [] op \in {"Jnz", "Cnz", "Rnz"} -> ~IsFlagSet(psw, FlagZero)
      [] op \in {"Jm",  "Cm",  "Rm"}  ->  IsFlagSet(psw, FlagSign)
      [] op \in {"Jp",  "Cp",  "Rp"}  -> ~IsFlagSet(psw, FlagSign)
      [] op \in {"Jpe", "Cpe", "Rpe"} -> ~IsFlagSet(psw, FlagParity)
      [] op \in {"Jpo", "Cpo", "Rpo"} ->  IsFlagSet(psw, FlagParity)

\* the flag test of each conditional arm
Taken(psw, op) ==
    CASE op \in {"Jc",  "Cc",  "Rc"}  ->  IsFlagSet(psw, FlagCarry)
      [] op \in {"Jnc", "Cnc", "Rnc"} -> ~IsFlagSet(psw, FlagCarry)
      [] op \in {"Jz",  "Cz",  "Rz"}  ->  IsFlagSet(psw, FlagZero)
      [] op \in {"Jnz", "Cnz", "Rnz"} -> ~IsFlagSet(psw, FlagZero)
      [] op \in {"Jm",  "Cm",  "Rm"}  ->  IsFlagSet(psw, FlagSign)
      [] op \in {"Jp",  "Cp",  "Rp"}  -> ~IsFlagSet(psw, FlagSign)
      [] op \in {"Jpe", "Cpe", "Rpe"} ->  IsFlagSet(psw, FlagParity)
      [] op \in {"Jpo", "Cpo", "Rpo"} -> ~IsFlagSet(psw, FlagParity)

JumpIf(E, op, exp) ==
    IF Taken(E.cpu_state.psw, op)
    THEN Tick([E EXCEPT !.cpu_state.pc = exp], 10)
    ELSE Tick(PcAdd(E, 3), 10)

\* sp -= 2; write_sp(pc); pc.set(sub); timers += 17
CallTo(E, sub) ==
    LET E1 == [E EXCEPT !.cpu_state.sp = PointerSub(@, 2)]
    IN  IF ~SpOk(E1) THEN Panic(E1)
        ELSE Tick([WriteSp(E1, E1.cpu_state.pc) EXCEPT !.cpu_state.pc = sub], 17)

\* the Call arm without pc += 3: the address of the CALL itself is pushed
CallPushesOwnAddress(E, sub) == CallTo(E, sub)

Call(E, sub) == CallTo(PcAdd(E, 3), sub)

\* the conditional call reporting the cost of Call whether taken or not
CallIfFlatCost(E, op, sub) ==
    IF Taken(E.cpu_state.psw, op)
    THEN CallTo(PcAdd(E, 3), sub)
    ELSE Tick(PcAdd(E, 3), 17)

CallIf(E, op, sub) ==
    IF Taken(E.cpu_state.psw, op)
    THEN CallTo(PcAdd(E, 3), sub)
    ELSE Tick(PcAdd(E, 3), 11)

\* pc.set(read_sp()); sp += 2; timers += n
ReturnWith(E, n) ==
    IF ~SpOk(E) THEN Panic(E)
    ELSE Tick([E EXCEPT !.cpu_state.pc = ReadSp(E),
                        !.cpu_state.sp = PointerAdd(@, 2)], n)

Ret(E) == ReturnWith(E, 10)

ReturnIf(E, op) ==
    IF Taken(E.cpu_state.psw, op)
    THEN ReturnWith(E, 11)
    ELSE Tick(PcAdd(E, 1), 5)

\* Rst pushing the address after the fetched opcode
RstPushesNext(E, exp) ==
    LET E1 == [E EXCEPT !.cpu_state.sp = PointerSub(@, 2)]
    IN  IF ~SpOk(E1) THEN Panic(E1)
        ELSE Tick([WriteSp(E1, PointerAdd(E1.cpu_state.pc, 1))
                      EXCEPT !.cpu_state.pc = exp * 8], 11)

\* Rst reporting the cycles of Call
RstCallCost(E, exp) ==
    LET E1 == [E EXCEPT !.cpu_state.sp = PointerSub(@, 2)]
    IN  IF ~SpOk(E1) THEN Panic(E1)
        ELSE Tick([WriteSp(E1, E1.cpu_state.pc) EXCEPT !.cpu_state.pc = exp * 8], 17)

\* an Rst arm that takes the vector number as the address
RstVectorUnscaled(E, exp) ==
    LET E1 == [E EXCEPT !.cpu_state.sp = PointerSub(@, 2)]
    IN  IF ~SpOk(E1) THEN Panic(E1)
        ELSE Tick([WriteSp(E1, E1.cpu_state.pc) EXCEPT !.cpu_state.pc = exp], 11)

Rst(E, exp) ==
    LET E1 == [E EXCEPT !.cpu_state.sp = PointerSub(@, 2)]
    IN  IF ~SpOk(E1) THEN Panic(E1)
        ELSE Tick([WriteSp(E1, E1.cpu_state.pc) EXCEPT !.cpu_state.pc = exp * 8], 11)

\* Ei that leaves the latch as it is
EiNoLatch(E) == Tick(PcAdd(E, 1), 4)

Ei(E) == Tick(PcAdd([E EXCEPT !.cpu_state.inte = TRUE], 1), 4)

Di(E) == Tick(PcAdd([E EXCEPT !.cpu_state.inte = FALSE], 1), 4)

\* the In arm over a read() whose last match arm yields 0
InDefaultZero(E, exp) ==
    LET data == IF exp \in ReadPorts THEN IOPortsRead(E.io_ports, exp) ELSE 0
    IN  Tick(PcAdd([E EXCEPT !.cpu_state.psw.a = data], 2), 10)

In(E, exp) ==
    IF exp \notin ReadPorts THEN Panic(E)
    ELSE Tick(PcAdd([E EXCEPT !.cpu_state.psw.a = IOPortsRead(E.io_ports, exp)], 2), 10)

Out(E, exp) ==
    IF exp \notin WritePorts THEN Panic(E)
    ELSE Tick(PcAdd([E EXCEPT !.io_ports =
             IOPortsWrite(@, exp, E.cpu_state.psw.a)], 2), 10)

\* Hlt stepping over its opcode before it returns
HltAdvancesPc(E) == [PcAdd(E, 1) EXCEPT !.outcome = "return"]

\* return Ok(())
Hlt(E) == [E EXCEPT !.outcome = "return"]

\* the match on decoded_instruction (lines 110-930)
Exec(E, i) ==
    CASE i.op = "Stc"  -> Stc(E)
      [] i.op = "Cmc"  -> Cmc(E)
      [] i.op = "Inr"  -> Inr(E, i.reg)
      [] i.op = "Dcr"  -> Dcr(E, i.reg)
      [] i.op = "Cma"  -> Cma(E)
      [] i.op = "Daa"  -> Daa(E)
      [] i.op = "Nop"  -> Nop(E)
      [] i.op = "Mov"  -> Mov(E, i.dst, i.src)
      [] i.op = "Stax" -> Stax(E, i.rp)
      [] i.op = "Ldax" -> Ldax(E, i.rp)
      [] i.op \in {"Add", "Adc", "Sub", "Sbb", "Ana", "Xra", "Ora", "Cmp"} ->
             AluReg(E, i.op, i.reg)
      [] i.op = "Rlc"  -> Rlc(E)
      [] i.op = "Rrc"  -> Rrc(E)
      [] i.op = "Ral"  -> Ral(E)
      [] i.op = "Rar"  -> Rar(E)
      [] i.op = "Push" -> Push(E, i.rp)
      [] i.op = "Pop"  -> Pop(E, i.rp)
      [] i.op = "Dad"  -> Dad(E, i.rp)
      [] i.op = "Inx"  -> Inx(E, i.rp)
      [] i.op = "Dcx"  -> Dcx(E, i.rp)
      [] i.op = "Xchg" -> Xchg(E)
      [] i.op = "Xthl" -> Xthl(E)
      [] i.op = "Sphl" -> Sphl(E)
      [] i.op = "Lxi"  -> Lxi(E, i.rp, i.data)
      [] i.op = "Mvi"  -> Mvi(E, i.reg, i.data)
      [] i.op \in {"Adi", "Aci", "Sui", "Sbi", "Ani", "Xri", "Ori", "Cpi"} ->
             AluImm(E, i.op, i.data)
      [] i.op = "Sta"  -> Sta(E, i.exp)
      [] i.op = "Lda"  -> Lda(E, i.exp)
      [] i.op = "Shld" -> Shld(E, i.exp)
      [] i.op = "Lhld" -> Lhld(E, i.exp)
      [] i.op = "Pchl" -> Pchl(E)
      [] i.op = "Jmp"  -> Jmp(E, i.exp)
      [] i.op \in {"Jc", "Jnc", "Jz", "Jnz", "Jm", "Jp", "Jpe", "Jpo"} ->
             JumpIf(E, i.op, i.exp)
      [] i.op = "Call" -> Call(E, i.sub)
      [] i.op \in {"Cc", "Cnc", "Cz", "Cnz", "Cm", "Cp", "Cpe", "Cpo"} ->
             CallIf(E, i.op, i.sub)
      [] i.op = "Ret"  -> Ret(E)
      [] i.op \in {"Rc", "Rnc", "Rz", "Rnz", "Rm", "Rp", "Rpe", "Rpo"} ->
             ReturnIf(E, i.op)
      [] i.op = "Rst"  -> Rst(E, i.exp)
      [] i.op = "Ei"   -> Ei(E)
      [] i.op = "Di"   -> Di(E)
      [] i.op = "In"   -> In(E, i.exp)
      [] i.op = "Out"  -> Out(E, i.exp)
      [] i.op = "Hlt"  -> Hlt(E)
      [] i.op = "Invalid" -> Panic(E)

-----------------------------------------------------------------------------
(* The cycle deltas the match arms report: every opcode is executed from a *)
(* state where its memory and port accesses succeed, once with every flag  *)
(* clear and once with every flag set.                                     *)

Range(seq) == {seq[k] : k \in DOMAIN seq}

Probe(flags) ==
    [cpu_state |-> [CpuStateNew EXCEPT !.psw.flags = flags, !.sp = 9216],
     memory |-> MemoryNew, io_ports |-> IOPortsNew,
     interrupt_timers |-> InterruptTimersNew,
     outcome |-> "continue", reported |-> <<>>]

CycleDeltas ==
    UNION {Range(Exec(Probe(flags), Decode(<<opcode, 2, 0>>)).reported) :
              opcode \in Byte, flags \in {2, 199}}

-----------------------------------------------------------------------------
(* Emulator::run                                                           *)

\* the interrupt check without self.cpu_state.inte = false
InterruptCheckKeepsLatch(cpu, timers, buf) ==
    IF timers.interrupt
    THEN IF cpu.inte
         THEN [instruction |-> [buf EXCEPT ![1] = Or8(199, Wrap8(timers.number * 8))],
               inte |-> cpu.inte, interrupt |-> FALSE, injected |-> TRUE]
         ELSE [instruction |-> buf,
               inte |-> cpu.inte, interrupt |-> FALSE, injected |-> FALSE]
    ELSE [instruction |-> buf,
          inte |-> cpu.inte, interrupt |-> timers.interrupt, injected |-> FALSE]

\* the interrupt check with the flag cleared only on delivery
InterruptCheckQueues(cpu, timers, buf) ==
    IF timers.interrupt /\ cpu.inte
    THEN [instruction |-> [buf EXCEPT ![1] = Or8(199, Wrap8(timers.number * 8))],
          inte |-> FALSE, interrupt |-> FALSE, injected |-> TRUE]
    ELSE [instruction |-> buf,
          inte |-> cpu.inte, interrupt |-> timers.interrupt, injected |-> FALSE]

\* the interrupt check delivering whatever is pending, the latch set or not
InterruptCheckIgnoresLatch(cpu, timers, buf) ==
    IF timers.interrupt
    THEN [instruction |-> [buf EXCEPT ![1] = Or8(199, Wrap8(timers.number * 8))],
          inte |-> FALSE, interrupt |-> FALSE, injected |-> TRUE]
    ELSE [instruction |-> buf,
          inte |-> cpu.inte, interrupt |-> timers.interrupt, injected |-> FALSE]

\* the interrupt check leaving a fetched HLT in the buffer
InterruptCheckSparesHlt(cpu, timers, buf) ==
    IF timers.interrupt
    THEN IF cpu.inte /\ buf[1] # 118
         THEN [instruction |-> [buf EXCEPT ![1] = Or8(199, Wrap8(timers.number * 8))],
               inte |-> FALSE, interrupt |-> FALSE, injected |-> TRUE]
         ELSE [instruction |-> buf,
               inte |-> cpu.inte, interrupt |-> FALSE, injected |-> FALSE]
    ELSE [instruction |-> buf,
          inte |-> cpu.inte, interrupt |-> timers.interrupt, injected |-> FALSE]

\* lines 97-105: the interrupt check on the fetched buffer
InterruptCheck(cpu, timers, buf) ==
    IF timers.interrupt
    THEN IF cpu.inte
         THEN [instruction |-> [buf EXCEPT ![1] = Or8(199, Wrap8(timers.number * 8))],
               inte |-> FALSE, interrupt |-> FALSE, injected |-> TRUE]
         ELSE [instruction |-> buf,
               inte |-> cpu.inte, interrupt |-> FALSE, injected |-> FALSE]
    ELSE [instruction |-> buf,
          inte |-> cpu.inte, interrupt |-> timers.interrupt, injected |-> FALSE]

\* lines 92-95: memory.read(program_counter, &mut instruction)
FetchBuffer(mem, pc) == <<Read8(mem, pc), Read8(mem, pc + 1), Read8(mem, pc + 2)>>

\* lines 92-105 with a read of the opcode byte alone: bytes past the image
\* read as zero
FetchOneByte ==
    /\ at = "fetch"
    /\ cycles < MaxCycles
    /\ program_counter' = cpu_state.pc
    /\ IF ~InRange(cpu_state.pc, 1)
       THEN /\ at' = "panicked"
            /\ UNCHANGED <<cpu_state, interrupt_timers, instruction, injected>>
       ELSE LET check == InterruptCheck(cpu_state, interrupt_timers,
                                        FetchBuffer(memory, cpu_state.pc))
            IN  /\ at' = "execute"
                /\ instruction' = check.instruction
                /\ injected' = check.injected
                /\ cpu_state' = [cpu_state EXCEPT !.inte = check.inte]
                /\ interrupt_timers' =
                       [interrupt_timers EXCEPT !.interrupt = check.interrupt]
    /\ UNCHANGED <<memory, io_ports, decoded_instruction, cycles, fired>>

\* lines 92-105. The read panics when the three bytes are not all in the image.
Fetch ==
    /\ at = "fetch"
    /\ cycles < MaxCycles
    /\ program_counter' = cpu_state.pc
    /\ IF ~InRange(cpu_state.pc, 3)
       THEN /\ at' = "panicked"
            /\ UNCHANGED <<cpu_state, interrupt_timers, instruction, injected>>
       ELSE LET check == InterruptCheck(cpu_state, interrupt_timers,
                                        FetchBuffer(memory, cpu_state.pc))
            IN  /\ at' = "execute"
                /\ instruction' = check.instruction
                /\ injected' = check.injected
                /\ cpu_state' = [cpu_state EXCEPT !.inte = check.inte]
                /\ interrupt_timers' =
                       [interrupt_timers EXCEPT !.interrupt = check.interrupt]
    /\ UNCHANGED <<memory, io_ports, decoded_instruction, cycles, fired>>

Emulator ==
    [cpu_state |-> cpu_state, memory |-> memory, io_ports |-> io_ports,
     interrupt_timers |-> interrupt_timers,
     outcome |-> "continue", reported |-> <<>>]

\* the sources the reported deltas trip, from the timers before the instruction
TripsOf(timers, reported) ==
    IF reported = <<>> THEN <<>> ELSE TrippedBy(timers, reported[1])

SumOf(reported) == IF reported = <<>> THEN 0 ELSE reported[1]

\* lines 107-930: disassemble, then the match arm
Execute ==
    /\ at = "execute"
    /\ LET decoded == Disassemble(program_counter, instruction)
           R == Exec(Emulator, decoded)
       IN  /\ decoded_instruction' = decoded
           /\ cpu_state' = R.cpu_state
           /\ memory' = R.memory
           /\ io_ports' = R.io_ports
           /\ interrupt_timers' = R.interrupt_timers
           /\ at' = CASE R.outcome = "continue" -> "fetch"
                      [] R.outcome = "return"   -> "returned"
                      [] R.outcome = "panic"    -> "panicked"
           /\ cycles' = cycles + SumOf(R.reported)
           /\ fired' = fired \o TripsOf(interrupt_timers, R.reported)
    /\ UNCHANGED <<program_counter, instruction, injected>>

-----------------------------------------------------------------------------
(* The ROM images run() is started on: Emulator::new(), then load_rom.     *)

Pad(bytes, len) == bytes \o [k \in 1..(len - Len(bytes)) |-> 0]

\* 0000: setup (3 bytes); JMP 0018
\* 0008: handler of RST 1; RET      0010: handler of RST 2; RET
\* 0018: first; body; JMP 0019
Rom(setup, handler1, handler2, first, body) ==
    Pad(setup \o <<195, 24, 0>>, 8)
    \o Pad(handler1 \o <<201>>, 8)
    \o Pad(handler2 \o <<201>>, 8)
    \o first \o body \o <<195, 25, 0>>

Setups == {<<49, 0, 36>>, <<0, 0, 0>>}         \* LXI SP,2400h; or SP stays 0

Handlers == {<<251>>, <<0>>}                     \* EI; or NOP

Firsts == {<<251>>, <<243>>}                     \* EI; or DI

\* NOP; EI; EI EI EI; EI NOP DI; HLT; DAA; RST 1
Bodies == {<<0>>, <<251>>, <<251, 251, 251>>, <<251, 0, 243>>, <<118>>, <<39>>, <<207>>}

Roms ==
    {Rom(setup, h, h, first, body) :
        setup \in Setups, h \in Handlers, first \in Firsts, body \in Bodies}

Init ==
    /\ cpu_state = CpuStateNew
    /\ memory \in {LoadRom(rom) : rom \in Roms}
    /\ io_ports = IOPortsNew
    /\ interrupt_timers = InterruptTimersNew
    /\ program_counter = 0
    /\ instruction = <<0, 0, 0>>
    /\ decoded_instruction = [op |-> "None"]
    /\ at = "fetch"
    /\ injected = FALSE
    /\ cycles = 0
    /\ fired = <<>>

Next == Fetch \/ Execute

Spec == Init /\ [][Next]_vars

-----------------------------------------------------------------------------
(* The scheduler alone: InterruptTimers::new(), then += delta with the     *)
(* deltas the match arms report, and the executor's clearing of the        *)
(* aggregate flag at an instruction boundary (lines 97-105).               *)

InitSched ==
    /\ cpu_state = CpuStateNew
    /\ memory = MemoryNew
    /\ io_ports = IOPortsNew
    /\ interrupt_timers = InterruptTimersNew
    /\ program_counter = 0
    /\ instruction = <<0, 0, 0>>
    /\ decoded_instruction = [op |-> "None"]
    /\ at = "fetch"
    /\ injected = FALSE
    /\ cycles = 0
    /\ fired = <<>>

\* self.interrupt_timers += delta
Advance(delta) ==
    /\ cycles + delta <= MaxTotal
    /\ interrupt_timers' = TimersAddAssign(interrupt_timers, delta)
    /\ cycles' = cycles + delta
    /\ fired' = fired \o TrippedBy(interrupt_timers, delta)
    /\ UNCHANGED <<cpu_state, memory, io_ports, program_counter, instruction,
                   decoded_instruction, at, injected>>

\* the interrupt check of run() with the latch as Emulator::new() leaves it
Acknowledge ==
    /\ interrupt_timers.interrupt
    /\ interrupt_timers' =
           [interrupt_timers EXCEPT !.interrupt =
               InterruptCheck(cpu_state, interrupt_timers, instruction).interrupt]
    /\ UNCHANGED <<cpu_state, memory, io_ports, program_counter, instruction,
                   decoded_instruction, at, injected, cycles, fired>>

AdvanceExecuted == \E delta \in CycleDeltas : Advance(delta)

NextSched == AdvanceExecuted \/ Acknowledge

SpecSched == InitSched /\ [][NextSched]_vars

\* The accumulate operation on deltas the u16 addition cannot overflow on.
AccumDeltas ==
    {delta \in CycleDeltas \cup {0, 1, 16667, 20000, NoOverflowDelta} :
        delta <= NoOverflowDelta}

AdvanceAny == \E delta \in AccumDeltas : Advance(delta)

NextAccum == AdvanceAny \/ Acknowledge

SpecAccum == InitSched /\ [][NextAccum]_vars

-----------------------------------------------------------------------------
(* run() on short programs: Emulator::new(), load_rom of the image, run(). *)

Halts(n) == [k \in 1..n |-> 118]

Lo(v) == v % 256

Hi(v) == v \div 256

\* 0000: LXI SP,2400h   0003: the opcode with the operand bytes 06 00
\* 0006..003F: HLT, so that every RST, jump and call target holds a HLT
ProgOpcode(opcode) == <<49, 0, 36, opcode, 6, 0>> \o Halts(58)

\* MVI A,5Ah; IN port or OUT port; HLT
ProgPort(opcode, port) == <<62, 90, opcode, port, 118>>

\* MVI A,a; OUT 4; MVI A,b; OUT 4; MVI A,amount; OUT 2; IN 3; HLT
ProgShift(a, b, amount) ==
    <<62, a, 211, 4, 62, b, 211, 4, 62, amount, 211, 2, 219, 3, 118>>

\* LXI rp,v; LXI SP,sp; PUSH rp; POP rp; HLT      (rp is B, D or H)
ProgStack(rp, v, sp) ==
    <<1 + 16 * rp, Lo(v), Hi(v), 49, Lo(sp), Hi(sp),
      197 + 16 * rp, 193 + 16 * rp, 118>>

\* LXI SP,2400h; LXI B,v; PUSH B; POP PSW; LXI SP,sp; PUSH PSW; POP PSW; HLT
ProgStackPsw(v, sp) ==
    <<49, 0, 36, 1, Lo(v), Hi(v), 197, 241, 49, Lo(sp), Hi(sp), 245, 241, 118>>

\* LXI SP,sp; n NOPs; CALL sub; HLT; sub: body; RET
ProgCall(sp, n, body) ==
    <<49, Lo(sp), Hi(sp)>> \o [k \in 1..n |-> 0]
    \o <<205, n + 7, 0, 118>> \o body \o <<201>>

\* MVI A,42h; JMP 0005h; (00); NOP; HLT
Scenario1 == <<62, 66, 195, 5, 0, 0, 118>>

\* LXI SP,2400h; CALL 0007h; HLT; RET
Scenario3 == <<49, 0, 36, 205, 7, 0, 118, 201>>

\* LXI H,1234h; PUSH H; POP H; HLT
Scenario6 == <<33, 52, 18, 229, 225, 118>>

StackPointers == {0, 1, 2, 3, 9216, 20479, 20480, 20481, 20482, 65535}

StackValues == {0, 4660, 255, 64770, 65535}

Programs ==
       {ProgOpcode(opcode) : opcode \in Byte}
  \cup {ProgPort(opcode, port) : opcode \in {211, 219}, port \in Byte}
  \cup {ProgShift(171, 205, amount) : amount \in {0, 3, 7, 255}}
  \cup {ProgStack(rp, v, sp) : rp \in 0..2, v \in StackValues, sp \in StackPointers}
  \cup {ProgStackPsw(v, sp) : v \in StackValues, sp \in StackPointers}
  \cup {ProgCall(sp, n, body) :
            sp \in StackPointers, n \in {0, 1}, body \in {<<>>, <<197, 193>>}}
  \cup {Scenario1, Scenario3, Scenario6}

InitProg ==
    /\ cpu_state = CpuStateNew
    /\ memory \in {LoadRom(prog) : prog \in Programs}
    /\ io_ports = IOPortsNew
    /\ interrupt_timers = InterruptTimersNew
    /\ program_counter = 0
    /\ instruction = <<0, 0, 0>>
    /\ decoded_instruction = [op |-> "None"]
    /\ at = "fetch"
    /\ injected = FALSE
    /\ cycles = 0
    /\ fired = <<>>

SpecProg == InitProg /\ [][Next]_vars

-----------------------------------------------------------------------------
(* run() on programs that load the accumulator, the flags and the operand  *)
(* and then execute one instruction.                                       *)

\* LXI SP,2400h; LXI B,(f<<8)|a; PUSH B; POP PSW: A = a, flags = f
SetPsw(a, f) == <<49, 0, 36, 1, a, f, 197, 241>>

\* ...; MVI B,x; the opcode (its operand register is B); HLT
ProgAluReg(a, f, x, opcode) == SetPsw(a, f) \o <<6, x, opcode, 118>>

\* ...; the opcode with the immediate byte x; HLT
ProgAluImm(a, f, x, opcode) == SetPsw(a, f) \o <<opcode, x, 118>>

\* ...; the one-byte opcode (its operand is A); HLT
ProgAcc(a, f, opcode) == SetPsw(a, f) \o <<opcode, 118>>

\* ...; LXI H,2000h; MVI M,x; the opcode (its operand register is M); HLT
ProgAluMem(a, f, x, opcode) == SetPsw(a, f) \o <<33, 0, 32, 54, x, opcode, 118>>

\* ...; LXI H,h; LXI B,w; LXI D,w; the DAD opcode; HLT
ProgDad(f, h, w, opcode) ==
    SetPsw(0, f)
    \o <<33, Lo(h), Hi(h), 1, Lo(w), Hi(w), 17, Lo(w), Hi(w), opcode, 118>>

\* ...; LXI B,1122h; LXI D,3344h; LXI H,2010h; MVI M,77h; the MOV opcode; HLT
ProgMov(f, opcode) ==
    SetPsw(90, f) \o <<1, 34, 17, 17, 68, 51, 33, 16, 32, 54, 119, opcode, 118>>

\* 0008: Jcc or Ccc 000Dh   000B: HLT   000C: NOP   000D: HLT
ProgJump(f, opcode) == SetPsw(0, f) \o <<opcode, 13, 0, 118, 0, 118>>

\* 0008: CALL 000Ch   000B: HLT   000C: Rcc   000D: HLT
ProgReturn(f, opcode) == SetPsw(0, f) \o <<205, 12, 0, 118, opcode, 118>>

\* accumulator and operand bytes
Vals == {0, 1, 2, 15, 16, 85, 127, 128, 129, 170, 254, 255}

\* the flags bytes new() and set_flag can produce: bit 1, and any of C, P, Z, S
FlagBytes ==
    {2 + c * FlagCarry + p * FlagParity + z * FlagZero + sg * FlagSign :
        c \in {0, 1}, p \in {0, 1}, z \in {0, 1}, sg \in {0, 1}}

\* carry clear or set, with P, Z, S all clear or all set
CarryFlagBytes == {2, 3, 198, 199}

Words == {0, 1, 255, 4660, 32768, 56320, 65535}

\* opcode of the k-th (0..7) instruction of a group of eight
Group(base, step) == {base + step * k : k \in 0..7}

AluPrograms ==
       {ProgAluReg(a, f, x, opcode) :
            a \in Vals, f \in CarryFlagBytes, x \in Vals, opcode \in Group(128, 8)}
  \cup {ProgAluImm(a, f, x, opcode) :
            a \in Vals, f \in CarryFlagBytes, x \in Vals, opcode \in Group(198, 8)}
  \cup {ProgAcc(a, f, opcode) :
            a \in Vals, f \in CarryFlagBytes,
            opcode \in Group(135, 8) \cup {60, 61, 7, 15, 23, 31}}
  \cup {ProgAcc(a, f, opcode) :
            a \in Byte, f \in CarryFlagBytes, opcode \in {7, 15, 23, 31}}
  \cup {ProgAluMem(a, f, x, opcode) :
            a \in {0, 1, 128, 255}, f \in CarryFlagBytes, x \in Vals,
            opcode \in Group(134, 8)}
  \cup {ProgAluReg(0, f, x, opcode) : f \in FlagBytes, x \in Vals, opcode \in {4, 5}}
  \cup {ProgAluMem(0, f, x, opcode) : f \in FlagBytes, x \in Vals, opcode \in {52, 53}}
  \cup {ProgDad(f, h, w, opcode) :
            f \in CarryFlagBytes, h \in Words, w \in Words, opcode \in {9, 25, 41, 57}}
  \cup {ProgMov(f, opcode) : f \in {2, 199}, opcode \in (64..127) \ {118}}
  \cup {ProgJump(f, opcode) :
            f \in FlagBytes, opcode \in Group(194, 8) \cup Group(196, 8)}
  \cup {ProgReturn(f, opcode) : f \in FlagBytes, opcode \in Group(192, 8)}

InitAlu ==
    /\ cpu_state = CpuStateNew
    /\ memory \in {LoadRom(prog) : prog \in AluPrograms}
    /\ io_ports = IOPortsNew
    /\ interrupt_timers = InterruptTimersNew
    /\ program_counter = 0
    /\ instruction = <<0, 0, 0>>
    /\ decoded_instruction = [op |-> "None"]
    /\ at = "fetch"
    /\ injected = FALSE
    /\ cycles = 0
    /\ fired = <<>>

SpecAlu == InitAlu /\ [][Next]_vars

-----------------------------------------------------------------------------
(* run() on programs that execute a sequence of instructions on one piece  *)
(* of state: rotates of A, exchanges with the stack top, port writes.      *)

\* SetPsw(a, f); four times the rotate first; four times the rotate second; HLT
ProgRotations(a, f, first, second) ==
    SetPsw(a, f)
    \o <<first, first, first, first, second, second, second, second, 118>>

\* LXI B,w; LXI SP,top; PUSH B; LXI H,h; XTHL; XTHL; HLT
ProgXthl(h, w, top) ==
    <<1, Lo(w), Hi(w), 49, Lo(top), Hi(top), 197, 33, Lo(h), Hi(h), 227, 227, 118>>

\* LXI SP,sp; LXI H,h; XTHL; XTHL; HLT
ProgXthlAt(h, sp) == <<49, Lo(sp), Hi(sp), 33, Lo(h), Hi(h), 227, 227, 118>>

\* SP after LXI SP,top; PUSH B, the last of them with the word at 4FFEh
StackTops == {8194, 9216, 20480}

\* MVI A,v1; OUT p1; MVI A,v2; OUT p2; MVI A,v3; OUT p3; IN 3; HLT
ProgOuts(v, p) ==
    <<62, v[1], 211, p[1], 62, v[2], 211, p[2], 62, v[3], 211, p[3], 219, 3, 118>>

\* bytes written to the ports: 0Dh and ABh have the low three bits 5 and 3
PortValues == {0, 13, 171, 255}

PortSequences(S) == {<<x, y, z>> : x \in S, y \in S, z \in S}

\* MOV, arithmetic, INR, DCR and MVI with the operand M
MemoryOperandOpcodes ==
    {52, 53, 54}
    \cup {opcode \in (64..191) \ {118} :
             opcode % 8 = 6 \/ (opcode < 128 /\ (opcode \div 8) % 8 = 6)}

\* STAX, LDAX, SHLD, LHLD, STA, LDA
PointerOpcodes == {2, 18, 10, 26, 34, 42, 50, 58}

\* POP, RET, XTHL, Rcc: they read the word at SP
PopOpcodes == {193, 209, 225, 241, 201, 227} \cup Group(192, 8)

\* PUSH, CALL, RST, Ccc: they write the word at SP - 2
PushOpcodes == {197, 213, 229, 245, 205} \cup Group(199, 8) \cup Group(196, 8)

AccessOpcodes ==
    MemoryOperandOpcodes \cup PointerOpcodes \cup PopOpcodes \cup PushOpcodes

\* the last byte of the image, the first byte past it, and beyond
EdgeAddresses == {20479, 20480, 20481, 36864, 65535}

\* LXI SP,addr (addr + 2 before a push); LXI B,addr; LXI D,addr; LXI H,addr;
\* the opcode, with the operand word addr (0012h for a call, 5Ah for MVI);
\* HLT, and HLT at 0012h..0014h
ProgAccess(opcode, addr) ==
    LET top == IF opcode \in PushOpcodes THEN (addr + 2) % 65536 ELSE addr
    IN  <<49, Lo(top), Hi(top), 1, Lo(addr), Hi(addr),
          17, Lo(addr), Hi(addr), 33, Lo(addr), Hi(addr)>>
        \o (CASE opcode \in {34, 42, 50, 58} -> <<opcode, Lo(addr), Hi(addr)>>
              [] opcode \in {205} \cup Group(196, 8) -> <<opcode, 18, 0>>
              [] opcode = 54 -> <<opcode, 90>>
              [] OTHER -> <<opcode>>)
        \o Halts(6)

SeqPrograms ==
       {ProgRotations(a, f, 7, 15) : a \in Byte, f \in {2, 3}}
  \cup {ProgRotations(a, f, 15, 7) : a \in Byte, f \in {2, 3}}
  \cup {ProgXthl(h, w, top) : h \in StackValues, w \in StackValues, top \in StackTops}
  \cup {ProgXthlAt(h, sp) : h \in StackValues, sp \in StackPointers \ (0..8)}
  \cup {ProgOuts(v, p) : v \in PortSequences(PortValues), p \in PortSequences({2, 3, 4})}
  \cup {ProgAccess(opcode, addr) : opcode \in AccessOpcodes, addr \in EdgeAddresses}

InitSeq ==
    /\ cpu_state = CpuStateNew
    /\ memory \in {LoadRom(prog) : prog \in SeqPrograms}
    /\ io_ports = IOPortsNew
    /\ interrupt_timers = InterruptTimersNew
    /\ program_counter = 0
    /\ instruction = <<0, 0, 0>>
    /\ decoded_instruction = [op |-> "None"]
    /\ at = "fetch"
    /\ injected = FALSE
    /\ cycles = 0
    /\ fired = <<>>

SpecSeq == InitSeq /\ [][Next]_vars

-----------------------------------------------------------------------------
(* run() on ROMs that reach a HLT or the end of the image about when       *)
(* source 1 first trips, 16,667 cycles after the start, and on programs    *)
(* that jump to the end of the image.                                      *)

\* the iterations of the delay loop
DelayCount == 241

\* 0019: MVI B,DelayCount   001B: XTHL; XTHL; XTHL; DCR B; JNZ 001Bh
\* then n NOPs; HLT.  With LXI SP, JMP and the instruction at 0018h before
\* it, the loop ends at 24 + 7 + 241 * 69 = 16,660 cycles.
DelayThenHlt(n) ==
    <<6, DelayCount, 227, 227, 227, 5, 194, 27, 0>> \o [k \in 1..n |-> 0] \o <<118>>

\* the delay loop; JMP addr: source 1 trips in the JMP
DelayThenJump(addr) ==
    <<6, DelayCount, 227, 227, 227, 5, 194, 27, 0>> \o <<195, Lo(addr), Hi(addr)>>

\* MVI A,76h; STA addr; JMP addr: a HLT stored at addr and jumped to
ProgHltAt(addr) == <<62, 118, 50, Lo(addr), Hi(addr), 195, Lo(addr), Hi(addr)>>

\* JMP addr
ProgJumpOut(addr) == <<195, Lo(addr), Hi(addr)>>

HltRoms ==
       {Rom(<<49, 0, 36>>, h, h, first, DelayThenHlt(n)) :
            h \in Handlers, first \in Firsts, n \in 0..3}
  \cup {Rom(<<49, 0, 36>>, h, h, first, DelayThenJump(addr)) :
            h \in Handlers, first \in Firsts, addr \in {20477, 20478, 20479}}
  \cup {ProgHltAt(addr) : addr \in {20476, 20477, 20478, 20479}}
  \cup {ProgJumpOut(addr) : addr \in {20480, 65534, 65535}}

InitHlt ==
    /\ cpu_state = CpuStateNew
    /\ memory \in {LoadRom(rom) : rom \in HltRoms}
    /\ io_ports = IOPortsNew
    /\ interrupt_timers = InterruptTimersNew
    /\ program_counter = 0
    /\ instruction = <<0, 0, 0>>
    /\ decoded_instruction = [op |-> "None"]
    /\ at = "fetch"
    /\ injected = FALSE
    /\ cycles = 0
    /\ fired = <<>>

SpecHlt == InitHlt /\ [][Next]_vars

-----------------------------------------------------------------------------
(* Claims about the scheduler.                                             *)

\* C6: += delta handles source 1, then source 2: each accumulator gets delta
\* added and, when it has reached 33,334, loses 33,334 and the source trips;
\* the aggregate flag becomes true when a source tripped and is otherwise
\* left as it was; the aggregate number becomes that of the last source that
\* tripped (2 when both trip) and is otherwise left as it was. new() gives
\* accumulators 16,667 and 0 and a false flag.
C6_Accumulate ==
    /\ interrupt_timers.timers[1].cycles = 16667
    /\ interrupt_timers.timers[2].cycles = 0
    /\ interrupt_timers.interrupt = FALSE
    /\ [][cycles' # cycles =>
            LET delta == cycles' - cycles
                s1 == interrupt_timers.timers[1].cycles + delta
                s2 == interrupt_timers.timers[2].cycles + delta
            IN  /\ interrupt_timers'.timers[1].cycles =
                       IF s1 >= 33334 THEN s1 - 33334 ELSE s1
                /\ interrupt_timers'.timers[2].cycles =
                       IF s2 >= 33334 THEN s2 - 33334 ELSE s2
                /\ interrupt_timers'.interrupt =
                       (interrupt_timers.interrupt \/ s1 >= 33334 \/ s2 >= 33334)
                /\ interrupt_timers'.number =
                       IF s2 >= 33334 THEN 2
                       ELSE IF s1 >= 33334 THEN 1
                       ELSE interrupt_timers.number
                /\ fired' = fired \o (IF s1 >= 33334 THEN <<1>> ELSE <<>>)
                                  \o (IF s2 >= 33334 THEN <<2>> ELSE <<>>)
         ]_vars

\* one += made both sources trip, source 1 for the second time: 2 is the number
C6_Witness ==
    /\ fired = <<1, 1, 2>>
    /\ interrupt_timers.number = 2
    /\ interrupt_timers.interrupt

\* C7: advanced by the deltas the instructions report, which lie in 4..18, no
\* += trips both sources, each accumulator stays in 0..33333, and the u16
\* addition of the next delta cannot overflow.
C7_SmallDeltas ==
    /\ CycleDeltas \subseteq 4..18
    /\ {4, 18} \subseteq CycleDeltas
    /\ [](\A k \in {1, 2} :
             /\ interrupt_timers.timers[k].cycles \in 0..33333
             /\ \A delta \in CycleDeltas :
                    interrupt_timers.timers[k].cycles + delta <= 65535)
    /\ [][/\ Len(fired') <= Len(fired) + 1
          /\ ~(/\ interrupt_timers'.timers[1].cycles < interrupt_timers.timers[1].cycles
               /\ interrupt_timers'.timers[2].cycles < interrupt_timers.timers[2].cycles)
         ]_vars

\* source 2 tripped on a step of 18 cycles from 33,333
C7_Witness ==
    /\ cycles = 33351
    /\ interrupt_timers.timers[2].cycles = 17
    /\ fired = <<1, 2>>

\* C8: at a total of exactly 33,334 cycles source 2 has just tripped, its
\* accumulator is 0 and the number is 2; the next trip is source 1's, at
\* 16,667 cycles more, and the number is then 1: the number is that of the
\* latest trip.
C8_Boundary ==
    /\ cycles = 33334 =>
           /\ interrupt_timers.timers[2].cycles = 0
           /\ interrupt_timers.number = 2
    /\ cycles \in 33334..50000 => fired = <<1, 2>>
    /\ cycles = 50001 => interrupt_timers.timers[1].cycles = 0
    /\ cycles \in 50001..66667 => fired = <<1, 2, 1>>
    /\ fired # <<>> => interrupt_timers.number = fired[Len(fired)]

C8_Witness ==
    /\ cycles = 33334
    /\ fired = <<1, 2>>
    /\ interrupt_timers.number = 2

\* C9: source 2's accumulator is the sum of the reported deltas mod 33,334,
\* source 1's is 16,667 plus that sum mod 33,334, so the two differ by 16,667,
\* and the trips are source 1's, source 2's, source 1's, ... in turn.
C9_FunctionOfCycles ==
    /\ interrupt_timers.timers[2].cycles = cycles % 33334
    /\ interrupt_timers.timers[1].cycles = (16667 + cycles) % 33334
    /\ interrupt_timers.timers[1].cycles - interrupt_timers.timers[2].cycles
           \in {16667, -16667}
    /\ \A k \in DOMAIN fired : fired[k] = IF k % 2 = 1 THEN 1 ELSE 2

C9_Witness ==
    /\ fired = <<1, 2, 1, 2>>
    /\ cycles > 66668

-----------------------------------------------------------------------------
(* Claims about run().                                                     *)

\* C1: at the interrupt check, with the aggregate flag and the latch both
\* set, the buffer's opcode becomes RST n (0b11000111 | n << 3) for n the
\* aggregate number, which is 1 or 2, the latch and the flag are cleared, and
\* the instruction then executed is that RST n; with either not set, the
\* instruction executed is the one decoded from the bytes stored at PC.
C1_InjectAtBoundary ==
    /\ [][(at = "fetch" /\ at' = "execute") =>
            IF interrupt_timers.interrupt /\ cpu_state.inte
            THEN /\ interrupt_timers.number \in {1, 2}
                 /\ instruction'[1] = 199 + 8 * interrupt_timers.number
                 /\ injected'
                 /\ ~cpu_state'.inte
                 /\ ~interrupt_timers'.interrupt
            ELSE /\ instruction' = FetchBuffer(memory, cpu_state.pc)
                 /\ ~injected'
                 /\ cpu_state'.inte = cpu_state.inte
         ]_vars
    /\ [][at = "execute" =>
            IF injected
            THEN decoded_instruction' = [op |-> "Rst", exp |-> interrupt_timers.number]
            ELSE decoded_instruction' = Decode(FetchBuffer(memory, cpu_state.pc))
         ]_vars

\* the RST 2 of the second source's trip was injected and executed
C1_Witness ==
    /\ at = "fetch"
    /\ injected
    /\ decoded_instruction = [op |-> "Rst", exp |-> 2]
    /\ fired = <<1, 2>>
    /\ cpu_state.pc = 16

\* C2: the aggregate flag is false after every interrupt check; a check that
\* finds the flag set and the latch clear clears the flag and leaves the
\* fetched bytes and the latch as they are; and the flag is set at a check
\* only when the instruction executed just before it tripped a source, so a
\* dropped interrupt is not delivered after a later EI.
C2_DroppedWhenDisabled ==
    /\ [](at = "execute" => ~interrupt_timers.interrupt)
    /\ [][(at = "fetch" /\ at' = "execute"
              /\ interrupt_timers.interrupt /\ ~cpu_state.inte) =>
            /\ ~injected'
            /\ instruction' = FetchBuffer(memory, cpu_state.pc)
            /\ ~interrupt_timers'.interrupt
            /\ ~cpu_state'.inte
         ]_vars
    /\ [][(at = "execute" /\ interrupt_timers'.interrupt) =>
            Len(fired') = Len(fired) + 1
         ]_vars

\* source 1 tripped with the latch clear, EI was executed after it, and
\* nothing is pending and nothing was pushed
C2_Witness ==
    /\ at = "fetch"
    /\ fired = <<1>>
    /\ decoded_instruction = [op |-> "Ei"]
    /\ cycles > 16700
    /\ cpu_state.inte
    /\ ~interrupt_timers.interrupt
    /\ cpu_state.sp = 9216
    /\ Read16(memory, 9214) = 0

\* C3: the injected RST n, executed with PC = p, sets SP to SP-2 and, the two
\* bytes at the new SP being in the image, stores p there low byte first,
\* sets PC to 8n and changes nothing else but the timers: the instruction
\* stored at p has no effect. (With the two bytes outside the image the
\* store panics.) A RET sets PC to the word at SP and SP to SP+2, so a RET
\* that pops the pushed word resumes at p.
C3_InjectedRstPushesPc ==
    /\ [][(at = "execute" /\ injected) =>
            LET p  == cpu_state.pc
                n  == interrupt_timers.number
                sp == (cpu_state.sp + 65534) % 65536
            IN  /\ p = program_counter
                /\ cpu_state'.sp = sp
                /\ IF sp + 2 <= 20480
                   THEN /\ at' = "fetch"
                        /\ cpu_state'.pc = 8 * n
                        /\ Read8(memory', sp) = p % 256
                        /\ Read8(memory', sp + 1) = p \div 256
                        /\ \A a \in (DOMAIN memory \cup DOMAIN memory') \ {sp, sp + 1} :
                               Read8(memory', a) = Read8(memory, a)
                        /\ cpu_state' = [cpu_state EXCEPT !.sp = sp, !.pc = 8 * n]
                        /\ io_ports' = io_ports
                   ELSE /\ at' = "panicked"
                        /\ cpu_state' = [cpu_state EXCEPT !.sp = sp]
                        /\ memory' = memory
         ]_vars
    /\ [][(at = "execute" /\ ~injected /\ at' = "fetch"
              /\ Decode(instruction).op = "Ret") =>
            /\ cpu_state'.pc = Read16(memory, cpu_state.sp)
            /\ cpu_state'.sp = (cpu_state.sp + 2) % 65536
         ]_vars

\* the handler's RET popped the word the injected RST 1 pushed: PC is back in
\* the loop the interrupt was taken in
C3_Witness ==
    /\ at = "fetch"
    /\ decoded_instruction = [op |-> "Ret"]
    /\ fired = <<1>>
    /\ cpu_state.sp = 9216
    /\ Read16(memory, 9214) = cpu_state.pc
    /\ cpu_state.pc >= 25

C5_InjectedRstCycles ==
    [][(at = "execute" /\ Decode(instruction).op = "Rst") =>
          /\ decoded_instruction' = Decode(instruction)
          /\ IF at' = "fetch"
             THEN /\ cycles' = cycles + 11
                  /\ \A k \in {1, 2} :
                         interrupt_timers'.timers[k].cycles =
                             (interrupt_timers.timers[k].cycles + 11) % 33334
             ELSE /\ cycles' = cycles
                  /\ interrupt_timers' = interrupt_timers
      ]_vars

\* the injected RST 1 was executed: 11 cycles after the trip at 16,667 or later
C5_Witness ==
    /\ at = "fetch"
    /\ injected
    /\ decoded_instruction = [op |-> "Rst", exp |-> 1]
    /\ interrupt_timers.timers[1].cycles \in 11..28
    /\ fired = <<1>>

\* C10: run() returns exactly in the iterations that decode HLT; HLT leaves
\* the registers, flags, memory, ports and timers as they are; and nothing is
\* executed after the return.
C10_HltReturns ==
    /\ [][at = "execute" =>
            ((at' = "returned") <=> (Decode(instruction).op = "Hlt"))]_vars
    /\ [][(at = "execute" /\ Decode(instruction).op = "Hlt") =>
            UNCHANGED <<cpu_state, memory, io_ports, interrupt_timers, cycles>>]_vars
    /\ [][at # "returned"]_vars

\* run() returned at the HLT stored at 0019
C10_Witness ==
    /\ at = "returned"
    /\ decoded_instruction = [op |-> "Hlt"]
    /\ cpu_state.pc = 25

-----------------------------------------------------------------------------
(* Claims about short programs, errors and the stack.                      *)

\* C11: the image 3E 42 C3 05 00 00 76 run from the initial state returns
\* from run() with PC = 0007h, A = 42h and 28 cycles reported in all.
\* (The Hlt arm returns before PC is advanced and before any cycles are
\* reported: the run ends with PC = 0006h and 21 cycles.)
C11_Scenario1 ==
    (at = "returned" /\ memory = LoadRom(Scenario1)) =>
        /\ cpu_state.pc = 7
        /\ cpu_state.psw.a = 66
        /\ cycles = 28

\* C12: a decode error or an invalid I/O port ends the run by run()
\* returning a failure value to its caller. (decode and IOPorts::read/write
\* panic: the thread unwinds out of run(), which returns nothing.)
C12_ErrorsAreReturned ==
    (decoded_instruction.op = "Invalid"
        \/ (decoded_instruction.op = "In"  /\ decoded_instruction.exp \notin ReadPorts)
        \/ (decoded_instruction.op = "Out" /\ decoded_instruction.exp \notin WritePorts))
    => at = "failed"

\* C13 as stated: every opcode byte followed by two operand bytes decodes to
\* an instruction.
C13_AllOpcodesDecode == decoded_instruction.op # "Invalid"

\* C13, amended: decode yields an instruction for every opcode byte but the
\* twelve that no match arm names (08, 10, 18, 20, 28, 30, 38, CB, D9, DD,
\* ED, FD); on each of those it panics, and the run ends there.
C13_DefinedOpcodesDecode ==
    [][at = "execute" =>
          LET undefined == {8, 16, 24, 32, 40, 48, 56, 203, 217, 221, 237, 253}
          IN  /\ (decoded_instruction'.op = "Invalid") <=> (instruction[1] \in undefined)
              /\ decoded_instruction'.op = "Invalid" =>
                     /\ at' = "panicked"
                     /\ UNCHANGED <<cpu_state, memory, io_ports, interrupt_timers>>
      ]_vars

\* opcode FDh was fetched at 0003 and the decoder panicked on it
C13_Witness ==
    /\ at = "panicked"
    /\ instruction = <<253, 6, 0>>
    /\ decoded_instruction.op = "Invalid"
    /\ cpu_state.pc = 3

\* C14: IN completes exactly for ports 0..3 and OUT exactly for ports 2..6
\* (PC advances by 2, 10 cycles are reported); on any other port the
\* instruction panics and leaves the accumulator, PC, the I/O latches, the
\* shift register and the timers as they were.
C14_PortsDefined ==
    [][(at = "execute" /\ Decode(instruction).op \in {"In", "Out"}) =>
          LET i == Decode(instruction)
              defined == IF i.op = "In" THEN i.exp \in 0..3 ELSE i.exp \in 2..6
          IN  IF defined
              THEN /\ at' = "fetch"
                   /\ cpu_state'.pc = (cpu_state.pc + 2) % 65536
                   /\ cycles' = cycles + 10
                   /\ i.op = "In" => io_ports' = io_ports
                   /\ i.op = "Out" => cpu_state'.psw = cpu_state.psw
              ELSE /\ at' = "panicked"
                   /\ UNCHANGED <<cpu_state, memory, io_ports, interrupt_timers, cycles>>
      ]_vars

\* IN 4 panicked: port 4 is an output port only
C14_Witness ==
    /\ at = "panicked"
    /\ decoded_instruction = [op |-> "In", exp |-> 4]
    /\ cpu_state.psw.a = 90
    /\ cpu_state.pc = 2
    /\ cycles = 7

\* C15: opcode 27h decodes to DAA, and executing DAA panics: PC, A, the
\* flags and everything else stay as they were, no cycles are reported, and
\* no instruction is executed after the panic.
C15_DaaFails ==
    /\ [][(at = "execute" /\ ~injected /\ instruction[1] = 39) =>
              decoded_instruction' = [op |-> "Daa"]]_vars
    /\ [][(at = "execute" /\ Decode(instruction).op = "Daa") =>
              /\ at' = "panicked"
              /\ UNCHANGED <<cpu_state, memory, io_ports, interrupt_timers, cycles>>
         ]_vars
    /\ [][at # "panicked"]_vars

\* the DAA at 0003 was executed and the run ended there
C15_Witness ==
    /\ at = "panicked"
    /\ decoded_instruction = [op |-> "Daa"]
    /\ cpu_state.pc = 3
    /\ cpu_state.sp = 9216
    /\ cycles = 10

\* C16: for every value and every starting SP, PUSH rp completes with SP
\* two lower and the value stored little-endian at the new SP, no other
\* byte changed; the POP rp that follows completes, loads rp with that word,
\* restores SP and leaves memory alone; and 21 34 12 E5 E1 76 run from the
\* initial state ends at its HLT with HL = 1234h and SP = 0.
\* (With SP-2 outside the image, as from the initial SP = 0, PUSH panics.)
C16_PushPopRoundTrip ==
    /\ [][(at = "execute" /\ Decode(instruction).op = "Push") =>
              LET v  == GetRegisterPair(Emulator, Decode(instruction).rp)
                  sp == (cpu_state.sp + 65534) % 65536
              IN  /\ at' = "fetch"
                  /\ cpu_state'.sp = sp
                  /\ Read8(memory', sp) = v % 256
                  /\ Read8(memory', (sp + 1) % 65536) = v \div 256
                  /\ \A a \in (DOMAIN memory \cup DOMAIN memory') \ {sp, sp + 1} :
                         Read8(memory', a) = Read8(memory, a)
         ]_vars
    /\ [][(at = "execute" /\ Decode(instruction).op = "Pop"
               /\ decoded_instruction = [op |-> "Push", rp |-> Decode(instruction).rp]) =>
              /\ at' = "fetch"
              /\ GetRegisterPair([Emulator EXCEPT !.cpu_state = cpu_state'],
                                 Decode(instruction).rp)
                     = Read16(memory, cpu_state.sp)
              /\ cpu_state'.sp = (cpu_state.sp + 2) % 65536
              /\ memory' = memory
         ]_vars
    /\ [](memory = LoadRom(Scenario6) => at # "panicked")
    /\ []((at = "returned" /\ \A a \in 0..5 : Read8(memory, a) = Scenario6[a + 1]) =>
              /\ PairGet(cpu_state.hl) = 4660
              /\ cpu_state.sp = 0)

\* C17: a PUSH, CALL or RST executed with SP = 0000h completes with
\* SP = FFFEh and the pushed word stored at FFFEh and FFFFh.
\* (SP does wrap to FFFEh; the store then indexes past the 5000h bytes of the
\* image and panics.)
C17_StackWrapsAtZero ==
    [][(at = "execute" /\ cpu_state.sp = 0
           /\ Decode(instruction).op \in {"Push", "Call", "Rst"}) =>
          /\ at' = "fetch"
          /\ cpu_state'.sp = 65534
          /\ Read16(memory', 65534) =
                 CASE Decode(instruction).op = "Push" ->
                          GetRegisterPair(Emulator, Decode(instruction).rp)
                   [] Decode(instruction).op = "Call" -> (cpu_state.pc + 3) % 65536
                   [] Decode(instruction).op = "Rst"  -> cpu_state.pc
      ]_vars

\* C18: in every reachable state bit 1 of the flags byte is 1 and bits 3, 4
\* and 5 are 0. (POP PSW stores the whole high byte of the popped word in
\* the flags byte.)
C18_ReservedFlagBits ==
    /\ Bit(cpu_state.psw.flags, 1) = 1
    /\ Bit(cpu_state.psw.flags, 3) = 0
    /\ Bit(cpu_state.psw.flags, 4) = 0
    /\ Bit(cpu_state.psw.flags, 5) = 0

\* C19: PUSH (C5, D5, E5, F5) stores BC, DE, HL or the word (flags<<8)|A,
\* never SP, and lowers SP by 2; POP (C1, D1, E1, F1) loads BC, DE, HL or A
\* (low byte) and the flags byte (high byte) from the word at SP and raises
\* SP by 2, never loading SP from the word; LXI, INX, DCX and DAD with pair
\* code 0b11 (31, 33, 3B, 39) work on SP.
C19_StackPairIsPsw ==
    /\ [][(at = "execute" /\ instruction[1] \in {197, 213, 229, 245}) =>
              LET sp   == (cpu_state.sp + 65534) % 65536
                  word == CASE instruction[1] = 197 ->
                                   256 * cpu_state.bc.rh + cpu_state.bc.rl
                            [] instruction[1] = 213 ->
                                   256 * cpu_state.de.rh + cpu_state.de.rl
                            [] instruction[1] = 229 ->
                                   256 * cpu_state.hl.rh + cpu_state.hl.rl
                            [] instruction[1] = 245 ->
                                   256 * cpu_state.psw.flags + cpu_state.psw.a
              IN  /\ decoded_instruction'.op = "Push"
                  /\ cpu_state'.sp = sp
                  /\ at' = "fetch" =>
                         /\ Read8(memory', sp) = word % 256
                         /\ Read8(memory', sp + 1) = word \div 256
                         /\ cpu_state' = [cpu_state EXCEPT
                                             !.sp = sp, !.pc = (@ + 1) % 65536]
         ]_vars
    /\ [][(at = "execute" /\ instruction[1] \in {193, 209, 225, 241}
               /\ at' = "fetch") =>
              LET lo == Read8(memory, cpu_state.sp)
                  hi == Read8(memory, cpu_state.sp + 1)
                  popped ==
                      CASE instruction[1] = 193 ->
                               [cpu_state EXCEPT !.bc = [rh |-> hi, rl |-> lo]]
                        [] instruction[1] = 209 ->
                               [cpu_state EXCEPT !.de = [rh |-> hi, rl |-> lo]]
                        [] instruction[1] = 225 ->
                               [cpu_state EXCEPT !.hl = [rh |-> hi, rl |-> lo]]
                        [] instruction[1] = 241 ->
                               [cpu_state EXCEPT !.psw = [flags |-> hi, a |-> lo]]
              IN  /\ decoded_instruction'.op = "Pop"
                  /\ cpu_state' = [popped EXCEPT !.sp = (@ + 2) % 65536,
                                                 !.pc = (@ + 1) % 65536]
                  /\ memory' = memory
         ]_vars
    /\ [][(at = "execute" /\ instruction[1] = 49) =>
              cpu_state'.sp = instruction[2] + 256 * instruction[3]]_vars
    /\ [][(at = "execute" /\ instruction[1] = 51) =>
              cpu_state'.sp = (cpu_state.sp + 1) % 65536]_vars
    /\ [][(at = "execute" /\ instruction[1] = 59) =>
              cpu_state'.sp = (cpu_state.sp + 65535) % 65536]_vars
    /\ [][(at = "execute" /\ instruction[1] = 57) =>
              /\ 256 * cpu_state'.hl.rh + cpu_state'.hl.rl =
                     (256 * cpu_state.hl.rh + cpu_state.hl.rl + cpu_state.sp) % 65536
              /\ cpu_state'.sp = cpu_state.sp]_vars

\* PUSH PSW stored A = 02h at 4FFEh and the flags FDh at 4FFFh, and POP PSW
\* loaded them back with SP again 5000h
C19_Witness ==
    /\ decoded_instruction = [op |-> "Pop", rp |-> 4]
    /\ cpu_state.pc = 13
    /\ cpu_state.sp = 20480
    /\ Read8(memory, 20478) = 2
    /\ Read8(memory, 20479) = 253
    /\ cpu_state.psw = [flags |-> 253, a |-> 2]

\* C20: CALL (CD) at address p with target t sets SP to SP-2 and, the two
\* bytes at the new SP being in the image, stores p+3 there low byte first
\* and sets PC to t, changing no other register (outside the image the store
\* panics); RET (C9) sets PC to the word at SP and SP to SP+2: with the
\* CALL's word on top of the stack it resumes at p+3 with the SP from before
\* the CALL, as after the RET of LXI SP,sp; CALL 0007h; HLT; RET.
C20_CallThenRet ==
    /\ [][(at = "execute" /\ instruction[1] = 205) =>
              LET p  == cpu_state.pc
                  t  == instruction[2] + 256 * instruction[3]
                  sp == (cpu_state.sp + 65534) % 65536
              IN  /\ decoded_instruction' = [op |-> "Call", sub |-> t]
                  /\ cpu_state'.sp = sp
                  /\ IF sp + 2 <= 20480
                     THEN /\ at' = "fetch"
                          /\ Read8(memory', sp) = ((p + 3) % 65536) % 256
                          /\ Read8(memory', sp + 1) = ((p + 3) % 65536) \div 256
                          /\ cpu_state' = [cpu_state EXCEPT !.sp = sp, !.pc = t]
                     ELSE at' = "panicked"
         ]_vars
    /\ [][(at = "execute" /\ instruction[1] = 201 /\ at' = "fetch") =>
              /\ decoded_instruction' = [op |-> "Ret"]
              /\ cpu_state' = [cpu_state EXCEPT
                                  !.pc = Read8(memory, cpu_state.sp)
                                           + 256 * Read8(memory, cpu_state.sp + 1),
                                  !.sp = (@ + 2) % 65536]
              /\ memory' = memory
         ]_vars
    /\ []((at = "fetch" /\ decoded_instruction.op = "Ret"
               /\ \E sp \in StackPointers \ 0..8 : \A a \in 0..7 :
                      Read8(memory, a) = ProgCall(sp, 0, <<>>)[a + 1]) =>
              /\ cpu_state.pc = 6
              /\ cpu_state.sp = Read8(memory, 1) + 256 * Read8(memory, 2))

\* the CALL at 0003 pushed 0006 at 23FEh and the RET at 0007 came back to
\* 0006 with SP = 2400h
C20_Witness ==
    /\ at = "fetch"
    /\ decoded_instruction = [op |-> "Ret"]
    /\ cpu_state.pc = 6
    /\ cpu_state.sp = 9216
    /\ Read8(memory, 9214) = 6
    /\ Read8(memory, 9215) = 0
    /\ cycles = 37

-----------------------------------------------------------------------------
(* Claims about conditional transfers, MOV and the arithmetic group.       *)

\* C21: for every Jcc (C2..FA), Ccc (C4..FC) and Rcc (C0..F8) the condition
\* code in opcode bits 5..3 selects, for 0..7, the predicate Z=0, Z=1, C=0,
\* C=1, P=0, P=1, S=0, S=1. The transfer is taken exactly when the predicate
\* holds: Jcc sets PC to its operand; Ccc lowers SP by 2, stores the address
\* after the Ccc there and sets PC to its operand; Rcc sets PC to the word at
\* SP and raises SP by 2 (the stack bytes being in the image). Not taken, PC
\* advances past the instruction (3 for Jcc and Ccc, 1 for Rcc) and nothing
\* else in the registers, and nothing in memory, changes.
C21_ConditionCodes ==
    [][(/\ at = "execute"
        /\ instruction[1] \in Group(192, 8) \cup Group(194, 8) \cup Group(196, 8)) =>
           LET opcode == instruction[1]
               cc     == (opcode \div 8) % 8
               bit    == CASE cc \in {0, 1} -> 64
                           [] cc \in {2, 3} -> 1
                           [] cc \in {4, 5} -> 4
                           [] cc \in {6, 7} -> 128
               holds  == (cpu_state.psw.flags \div bit) % 2 = cc % 2
               exp    == instruction[2] + 256 * instruction[3]
               pushed == (cpu_state.sp + 65534) % 65536
               next   == (cpu_state.pc + 3) % 65536
           IN  IF ~holds
               THEN /\ cpu_state' =
                           [cpu_state EXCEPT
                               !.pc = (@ + (IF opcode % 8 = 0 THEN 1 ELSE 3)) % 65536]
                    /\ memory' = memory
                    /\ at' = "fetch"
               ELSE CASE opcode % 8 = 2 ->
                             /\ cpu_state' = [cpu_state EXCEPT !.pc = exp]
                             /\ memory' = memory
                             /\ at' = "fetch"
                      [] opcode % 8 = 4 ->
                             /\ cpu_state'.sp = pushed
                             /\ pushed + 2 <= 20480 =>
                                    /\ cpu_state' =
                                           [cpu_state EXCEPT !.pc = exp, !.sp = pushed]
                                    /\ Read8(memory', pushed) = next % 256
                                    /\ Read8(memory', pushed + 1) = next \div 256
                                    /\ at' = "fetch"
                      [] opcode % 8 = 0 ->
                             cpu_state.sp + 2 <= 20480 =>
                                /\ cpu_state' =
                                       [cpu_state EXCEPT
                                           !.pc = Read8(memory, cpu_state.sp)
                                                  + 256 * Read8(memory, cpu_state.sp + 1),
                                           !.sp = (@ + 2) % 65536]
                                /\ memory' = memory
                                /\ at' = "fetch"
      ]_vars

\* CPE 000Dh with P clear was not taken: PC is 000Bh, SP still 2400h and the
\* word below it still the 0200h that PUSH B stored
C21_Witness ==
    /\ decoded_instruction = [op |-> "Cpe", sub |-> 13]
    /\ at = "fetch"
    /\ cpu_state.psw.flags = 2
    /\ cpu_state.pc = 11
    /\ cpu_state.sp = 9216
    /\ Read16(memory, 9214) = 512

\* C22: a conditional jump reports 10 cycles whether or not it is taken; a
\* conditional call reports 17 taken and 11 not taken; a conditional return
\* reports 11 taken and 5 not taken.
C22_ConditionalCycles ==
    [][(/\ at = "execute"
        /\ instruction[1] \in Group(192, 8) \cup Group(194, 8) \cup Group(196, 8)
        /\ at' = "fetch") =>
           LET opcode == instruction[1]
               cc     == (opcode \div 8) % 8
               bit    == CASE cc \in {0, 1} -> 64
                           [] cc \in {2, 3} -> 1
                           [] cc \in {4, 5} -> 4
                           [] cc \in {6, 7} -> 128
               holds  == (cpu_state.psw.flags \div bit) % 2 = cc % 2
           IN  cycles' - cycles =
                   CASE opcode % 8 = 2 -> 10
                     [] opcode % 8 = 4 -> IF holds THEN 17 ELSE 11
                     [] opcode % 8 = 0 -> IF holds THEN 11 ELSE 5
      ]_vars

\* CZ 000Dh with Z set was taken: 10 + 10 + 11 + 10 cycles of the four
\* instructions before it and 17 of its own
C22_Witness ==
    /\ decoded_instruction = [op |-> "Cz", sub |-> 13]
    /\ at = "fetch"
    /\ cpu_state.psw.flags = 66
    /\ cpu_state.pc = 13
    /\ cycles = 58

\* C23: a MOV (40..7F except 76) whose destination (bits 5..3) and source
\* (bits 2..0) are both registers other than M (code 6) reports exactly 4
\* cycles; a MOV with M on either side reports 7.
C23_MovCycles ==
    [][(/\ at = "execute"
        /\ instruction[1] \in (64..127) \ {118}
        /\ at' = "fetch") =>
           LET dst == (instruction[1] \div 8) % 8
               src == instruction[1] % 8
           IN  cycles' - cycles = IF dst # 6 /\ src # 6 THEN 4 ELSE 7
      ]_vars

\* C24: MOV r,r with the same register r of B, C, D, E, H, L, A on both
\* sides (40, 49, 52, 5B, 64, 6D, 7F) changes nothing except that PC advances
\* by 1 and the scheduler advances by the cycle cost the instruction reports:
\* registers, flags, SP, memory and ports are as before.
C24_MovSelfIsNoOp ==
    [][(at = "execute" /\ instruction[1] \in {64, 73, 82, 91, 100, 109, 127}) =>
           /\ cpu_state' = [cpu_state EXCEPT !.pc = (@ + 1) % 65536]
           /\ memory' = memory
           /\ io_ports' = io_ports
           /\ cycles' > cycles
           /\ interrupt_timers' = TimersAddAssign(interrupt_timers, cycles' - cycles)
           /\ at' = "fetch"
      ]_vars

\* MOV H,H at 0013h has run with BC = 1122h, DE = 3344h, HL = 2010h, A = 5Ah
\* and all of C, P, Z, S set
C24_Witness ==
    /\ decoded_instruction = [op |-> "Mov", dst |-> 4, src |-> 4]
    /\ at = "fetch"
    /\ cpu_state.pc = 20
    /\ cpu_state.bc = [rh |-> 17, rl |-> 34]
    /\ cpu_state.de = [rh |-> 51, rl |-> 68]
    /\ cpu_state.hl = [rh |-> 32, rl |-> 16]
    /\ cpu_state.psw = [flags |-> 199, a |-> 90]
    /\ cpu_state.sp = 9216

\* C25: after every ADD, ADC, SUB, SBB, ANA, XRA, ORA, CMP (80..BF), their
\* immediate forms (C6..FE), INR (04..3C) and DCR (05..3D), Z is set exactly
\* when the result is zero, S equals bit 7 of the result and P is set exactly
\* when the result has an even number of 1 bits. The result is the byte the
\* instruction stored (the new accumulator, or the new register or memory
\* byte of INR and DCR) and, for CMP and CPI, the difference A - x mod 256.
C25_ResultFlags ==
    [][(/\ at = "execute"
        /\ instruction[1] \in (128..191) \cup Group(198, 8)
                                \cup Group(4, 8) \cup Group(5, 8)
        /\ at' = "fetch") =>
           LET opcode == instruction[1]
               old(r) == CASE r = 0 -> cpu_state.bc.rh [] r = 1 -> cpu_state.bc.rl
                           [] r = 2 -> cpu_state.de.rh [] r = 3 -> cpu_state.de.rl
                           [] r = 4 -> cpu_state.hl.rh [] r = 5 -> cpu_state.hl.rl
                           [] r = 6 -> Read8(memory, 256 * cpu_state.hl.rh
                                                     + cpu_state.hl.rl)
                           [] r = 7 -> cpu_state.psw.a
               new(r) == CASE r = 0 -> cpu_state'.bc.rh [] r = 1 -> cpu_state'.bc.rl
                           [] r = 2 -> cpu_state'.de.rh [] r = 3 -> cpu_state'.de.rl
                           [] r = 4 -> cpu_state'.hl.rh [] r = 5 -> cpu_state'.hl.rl
                           [] r = 6 -> Read8(memory', 256 * cpu_state'.hl.rh
                                                      + cpu_state'.hl.rl)
                           [] r = 7 -> cpu_state'.psw.a
               result ==
                   CASE opcode \in 184..191 ->
                            (cpu_state.psw.a + 256 - old(opcode % 8)) % 256
                     [] opcode = 254 ->
                            (cpu_state.psw.a + 256 - instruction[2]) % 256
                     [] opcode < 64 -> new((opcode \div 8) % 8)
                     [] OTHER -> cpu_state'.psw.a
               ones   == LET bit(k) == (result \div (2 ^ k)) % 2
                         IN  bit(0) + bit(1) + bit(2) + bit(3)
                             + bit(4) + bit(5) + bit(6) + bit(7)
               flags  == cpu_state'.psw.flags
           IN  /\ (flags \div 64) % 2 = (IF result = 0 THEN 1 ELSE 0)
               /\ (flags \div 128) % 2 = result \div 128
               /\ (flags \div 4) % 2 = (IF ones % 2 = 0 THEN 1 ELSE 0)
      ]_vars

\* SUB B with A = 01h and B = 02h stored FFh: S and P set, Z clear (and the
\* borrow in C)
C25_Witness ==
    /\ decoded_instruction = [op |-> "Sub", reg |-> 0]
    /\ at = "fetch"
    /\ cpu_state.bc.rh = 2
    /\ cpu_state.psw = [flags |-> 135, a |-> 255]

\* C26: with x the operand (register, memory byte at HL or immediate) and c
\* the carry flag before the instruction: ADD and ADI set A to (A + x) mod
\* 256 and C exactly when A + x > 255; ADC and ACI set A to (A + x + c) mod
\* 256 and C exactly when A + x + c > 255; SUB and SUI set A to (A - x) mod
\* 256 and C exactly when A < x; SBB and SBI set A to (A - x - c) mod 256 and
\* C exactly when A < x + c.
C26_AddSubCarry ==
    [][(/\ at = "execute"
        /\ instruction[1] \in (128..159) \cup {198, 206, 214, 222}
        /\ at' = "fetch") =>
           LET opcode == instruction[1]
               old(r) == CASE r = 0 -> cpu_state.bc.rh [] r = 1 -> cpu_state.bc.rl
                           [] r = 2 -> cpu_state.de.rh [] r = 3 -> cpu_state.de.rl
                           [] r = 4 -> cpu_state.hl.rh [] r = 5 -> cpu_state.hl.rl
                           [] r = 6 -> Read8(memory, 256 * cpu_state.hl.rh
                                                     + cpu_state.hl.rl)
                           [] r = 7 -> cpu_state.psw.a
               x      == IF opcode < 192 THEN old(opcode % 8) ELSE instruction[2]
               a      == cpu_state.psw.a
               c      == cpu_state.psw.flags % 2
               kind   == (opcode \div 8) % 4
               sum    == CASE kind = 0 -> a + x
                           [] kind = 1 -> a + x + c
                           [] kind = 2 -> a - x
                           [] kind = 3 -> a - x - c
               carry  == CASE kind = 0 -> a + x > 255
                           [] kind = 1 -> a + x + c > 255
                           [] kind = 2 -> a < x
                           [] kind = 3 -> a < x + c
           IN  /\ cpu_state'.psw.a = (sum + 512) % 256
               /\ cpu_state'.psw.flags % 2 = (IF carry THEN 1 ELSE 0)
      ]_vars

\* ACI 00h left A = 00h with C set: A was FFh and the carry was set
C26_Witness ==
    /\ decoded_instruction = [op |-> "Aci", data |-> 0]
    /\ at = "fetch"
    /\ cpu_state.psw = [flags |-> 71, a |-> 0]

\* C27: CMP r (B8..BF) and CPI d (FE) leave A, every other register, SP,
\* memory and the ports unchanged, advance PC past the instruction, and set
\* the flags byte to what SUB r (SUI d) sets it to from the same state.
C27_CompareIsSubtractFlags ==
    [][(/\ at = "execute"
        /\ instruction[1] \in (184..191) \cup {254}
        /\ at' = "fetch") =>
           LET opcode == instruction[1]
               sub    == IF opcode = 254
                         THEN AluImm(Emulator, "Sui", instruction[2])
                         ELSE AluReg(Emulator, "Sub", opcode % 8)
           IN  /\ cpu_state' =
                      [cpu_state EXCEPT
                          !.pc = (@ + (IF opcode = 254 THEN 2 ELSE 1)) % 65536,
                          !.psw.flags = sub.cpu_state.psw.flags]
               /\ sub.cpu_state.psw.a = (cpu_state.psw.a + 256
                      - (IF opcode = 254 THEN instruction[2]
                         ELSE GetRegister(Emulator, opcode % 8))) % 256
               /\ memory' = memory
               /\ io_ports' = io_ports
      ]_vars

\* CPI 02h with A = 01h left A = 01h and set S, P and C as the difference
\* FFh with a borrow does
C27_Witness ==
    /\ decoded_instruction = [op |-> "Cpi", data |-> 2]
    /\ at = "fetch"
    /\ cpu_state.psw = [flags |-> 135, a |-> 1]

\* C28: INR (04..3C) stores (operand + 1) mod 256 and DCR (05..3D) stores
\* (operand - 1) mod 256 in the operand register (or the memory byte at HL),
\* set Z, S, P from the stored byte and leave the carry flag as it was. INR
\* of FFh stores 00h with Z = 1 and S = 0; DCR of 00h stores FFh with S = 1
\* and Z = 0.
C28_IncrementDecrement ==
    [][(/\ at = "execute"
        /\ instruction[1] \in Group(4, 8) \cup Group(5, 8)
        /\ at' = "fetch") =>
           LET opcode == instruction[1]
               r      == (opcode \div 8) % 8
               old    == CASE r = 0 -> cpu_state.bc.rh [] r = 1 -> cpu_state.bc.rl
                           [] r = 2 -> cpu_state.de.rh [] r = 3 -> cpu_state.de.rl
                           [] r = 4 -> cpu_state.hl.rh [] r = 5 -> cpu_state.hl.rl
                           [] r = 6 -> Read8(memory, 256 * cpu_state.hl.rh
                                                     + cpu_state.hl.rl)
                           [] r = 7 -> cpu_state.psw.a
               new    == CASE r = 0 -> cpu_state'.bc.rh [] r = 1 -> cpu_state'.bc.rl
                           [] r = 2 -> cpu_state'.de.rh [] r = 3 -> cpu_state'.de.rl
                           [] r = 4 -> cpu_state'.hl.rh [] r = 5 -> cpu_state'.hl.rl
                           [] r = 6 -> Read8(memory', 256 * cpu_state'.hl.rh
                                                      + cpu_state'.hl.rl)
                           [] r = 7 -> cpu_state'.psw.a
               flags  == cpu_state'.psw.flags
               z      == (flags \div 64) % 2
               s      == (flags \div 128) % 2
               p      == (flags \div 4) % 2
               ones   == LET bit(k) == (new \div (2 ^ k)) % 2
                         IN  bit(0) + bit(1) + bit(2) + bit(3)
                             + bit(4) + bit(5) + bit(6) + bit(7)
           IN  /\ new = (IF opcode % 2 = 0 THEN old + 1 ELSE old + 255) % 256
               /\ flags % 2 = cpu_state.psw.flags % 2
               /\ z = (IF new = 0 THEN 1 ELSE 0)
               /\ s = new \div 128
               /\ p = (IF ones % 2 = 0 THEN 1 ELSE 0)
               /\ (opcode % 2 = 0 /\ old = 255) => (new = 0 /\ z = 1 /\ s = 0)
               /\ (opcode % 2 = 1 /\ old = 0) => (new = 255 /\ s = 1 /\ z = 0)
      ]_vars

\* DCR B of 00h stored FFh and set S and P; Z is clear and C is still clear
C28_Witness ==
    /\ decoded_instruction = [op |-> "Dcr", reg |-> 0]
    /\ at = "fetch"
    /\ cpu_state.bc.rh = 255
    /\ cpu_state.psw.flags = 134

\* C29: DAD rp (09, 19, 29, 39; rp = BC, DE, HL, SP) sets HL to (HL + rp) mod
\* 2^16 and C to the carry out of the 16-bit addition, advances PC by 1 and
\* leaves Z, S, P, A and every other register unchanged; DAD H doubles HL;
\* with HL = FFFFh and rp = 0001h the result is HL = 0000h with C = 1.
C29_DoubleAdd ==
    [][(at = "execute" /\ instruction[1] \in {9, 25, 41, 57}) =>
           LET hl  == 256 * cpu_state.hl.rh + cpu_state.hl.rl
               rp  == CASE instruction[1] = 9  ->
                               256 * cpu_state.bc.rh + cpu_state.bc.rl
                        [] instruction[1] = 25 ->
                               256 * cpu_state.de.rh + cpu_state.de.rl
                        [] instruction[1] = 41 -> hl
                        [] instruction[1] = 57 -> cpu_state.sp
               sum == (hl + rp) % 65536
               c   == IF hl + rp > 65535 THEN 1 ELSE 0
               f   == cpu_state.psw.flags
           IN  /\ cpu_state' =
                      [cpu_state EXCEPT
                          !.hl = [rh |-> sum \div 256, rl |-> sum % 256],
                          !.psw.flags = f - (f % 2) + c,
                          !.pc = (@ + 1) % 65536]
               /\ memory' = memory
               /\ at' = "fetch"
               /\ instruction[1] = 41 => sum = (2 * hl) % 65536
               /\ (hl = 65535 /\ rp = 1) => (sum = 0 /\ c = 1)
      ]_vars

\* DAD B with HL = FFFFh and BC = 0001h: HL is 0000h and C is set, the other
\* flag bits as before
C29_Witness ==
    /\ decoded_instruction = [op |-> "Dad", rp |-> 0]
    /\ at = "fetch"
    /\ cpu_state.bc = [rh |-> 0, rl |-> 1]
    /\ cpu_state.hl = [rh |-> 0, rl |-> 0]
    /\ cpu_state.psw.flags = 199

\* C30: for every A and carry C, RLC (07) sets A to A rotated left by one
\* and C to the old bit 7; RRC (0F) sets A to A rotated right by one and C to
\* the old bit 0; RAL (17) sets A to ((A << 1) mod 256) | C and C to the old
\* bit 7; RAR (1F) sets A to (A >> 1) | (C << 7) and C to the old bit 0. All
\* four leave Z, S, P and everything else but PC, which advances by 1,
\* unchanged.
C30_Rotates ==
    [][(at = "execute" /\ instruction[1] \in {7, 15, 23, 31}) =>
           LET a    == cpu_state.psw.a
               f    == cpu_state.psw.flags
               c    == f % 2
               bit7 == a \div 128
               bit0 == a % 2
               acc  == CASE instruction[1] = 7  -> ((2 * a) % 256) + bit7
                         [] instruction[1] = 15 -> (a \div 2) + 128 * bit0
                         [] instruction[1] = 23 -> ((2 * a) % 256) + c
                         [] instruction[1] = 31 -> (a \div 2) + 128 * c
               cy   == IF instruction[1] \in {7, 23} THEN bit7 ELSE bit0
           IN  /\ cpu_state' =
                      [cpu_state EXCEPT
                          !.psw = [flags |-> f - c + cy, a |-> acc],
                          !.pc = (@ + 1) % 65536]
               /\ memory' = memory
               /\ at' = "fetch"
      ]_vars

\* RAL of A = 80h with C clear: A is 00h and C is set, while Z stays clear
C30_Witness ==
    /\ decoded_instruction = [op |-> "Ral"]
    /\ at = "fetch"
    /\ cpu_state.psw = [flags |-> 3, a |-> 0]

-----------------------------------------------------------------------------
(* Claims about instruction sequences, the ports, the image bounds and     *)
(* interrupts at instruction boundaries.                                   *)

\* C31: for every accumulator value and every initial carry, RLC four times
\* and RRC four times, in either order of the two groups, restore both the
\* accumulator and the carry flag: when SetPsw(a, f); the eight rotates; HLT
\* has returned, A is a and the carry is bit 0 of f.
C31_RotationsRestoreCarry ==
    (/\ at = "returned"
     /\ <<Read8(memory, 8), Read8(memory, 12)>> \in {<<7, 15>>, <<15, 7>>})
        => /\ cpu_state.psw.a = Read8(memory, 4)
           /\ cpu_state.psw.flags % 2 = Read8(memory, 5) % 2

\* C31 as the rotates compute it: the accumulator is restored; the carry is
\* the bit the eighth rotate moved out, bit 7 of the initial accumulator
\* after RLC x 4; RRC x 4 and bit 0 of it after RRC x 4; RLC x 4, whatever the
\* initial carry was. Z, S and P are as before.
C31_RotationsRestoreAccumulator ==
    (/\ at = "returned"
     /\ <<Read8(memory, 8), Read8(memory, 12)>> \in {<<7, 15>>, <<15, 7>>})
        => LET a == Read8(memory, 4)
               f == Read8(memory, 5)
           IN  /\ cpu_state.psw.a = a
               /\ cpu_state.psw.flags =
                      f - (f % 2)
                      + (IF Read8(memory, 8) = 7 THEN a \div 128 ELSE a % 2)

\* A = 80h with the carry clear, RLC x 4 then RRC x 4: A is 80h again and
\* the carry is now set
C31_Witness ==
    /\ at = "returned"
    /\ Read8(memory, 4) = 128
    /\ Read8(memory, 5) = 2
    /\ Read8(memory, 8) = 7
    /\ Read8(memory, 12) = 15
    /\ cpu_state.psw = [flags |-> 3, a |-> 128]

\* C32: XTHL (E3), the two bytes at SP being in the image, exchanges HL with
\* the little-endian word at SP (L with the byte at SP, H with the byte at
\* SP+1), advances PC by 1 and changes nothing else: not SP, not the flags,
\* no other memory byte. Two XTHL in succession restore HL and the word at
\* SP: when LXI B,w; LXI SP,top; PUSH B; LXI H,h; XTHL; XTHL; HLT has
\* returned, HL is h, the word at SP is w and SP is top - 2.
C32_ExchangeStackTop ==
    /\ [][(/\ at = "execute"
           /\ instruction[1] = 227
           /\ cpu_state.sp + 2 <= 20480) =>
              LET sp == cpu_state.sp
              IN  /\ cpu_state' =
                         [cpu_state EXCEPT
                             !.hl = [rh |-> Read8(memory, sp + 1),
                                     rl |-> Read8(memory, sp)],
                             !.pc = (@ + 1) % 65536]
                  /\ memory' = Write8(Write8(memory, sp, cpu_state.hl.rl),
                                      sp + 1, cpu_state.hl.rh)
                  /\ at' = "fetch"
         ]_vars
    /\ []((/\ at = "returned"
           /\ Read8(memory, 6) = 197
           /\ Read8(memory, 10) = 227
           /\ Read8(memory, 11) = 227) =>
              /\ cpu_state.hl = [rh |-> Read8(memory, 9), rl |-> Read8(memory, 8)]
              /\ cpu_state.sp = (Read16(memory, 4) + 65534) % 65536
              /\ Read8(memory, cpu_state.sp) = Read8(memory, 1)
              /\ Read8(memory, cpu_state.sp + 1) = Read8(memory, 2))

\* the first XTHL with HL = 1234h and the word FD02h at SP = 4FFEh: HL is
\* FD02h and the bytes at 4FFEh and 4FFFh are 34h and 12h
C32_Witness ==
    /\ decoded_instruction = [op |-> "Xthl"]
    /\ at = "fetch"
    /\ cpu_state.pc = 11
    /\ cpu_state.sp = 20478
    /\ cpu_state.hl = [rh |-> 253, rl |-> 2]
    /\ Read8(memory, 20478) = 52
    /\ Read8(memory, 20479) = 18

\* C33: OUT 4 (D3 04) with A = v sets shift_register to (shift_register >>
\* 8) | (v << 8) and OUT 2 stores the low 3 bits of A as shift_amount, each
\* changing nothing else in the port bank; shift_amount is always in 0..7;
\* IN 3 (DB 03) sets A to (shift_register >> (8 - shift_amount)) truncated to
\* 8 bits and changes neither the shift register nor shift_amount.
C33_ShiftPeripheral ==
    /\ [](io_ports.output.shift_amount \in 0..7)
    /\ [][(at = "execute" /\ instruction[1] = 211 /\ instruction[2] = 4) =>
              io_ports' = [io_ports EXCEPT !.shift_register =
                              (io_ports.shift_register \div 256)
                              + 256 * cpu_state.psw.a]
         ]_vars
    /\ [][(at = "execute" /\ instruction[1] = 211 /\ instruction[2] = 2) =>
              io_ports' = [io_ports EXCEPT !.output.shift_amount =
                              cpu_state.psw.a % 8]
         ]_vars
    /\ [][(at = "execute" /\ instruction[1] = 219 /\ instruction[2] = 3) =>
              /\ cpu_state'.psw.a =
                     (io_ports.shift_register
                        \div (2 ^ (8 - io_ports.output.shift_amount))) % 256
              /\ io_ports' = io_ports
         ]_vars

\* OUT 4 of FFh, OUT 4 of ABh, OUT 2 of 0Dh, IN 3: the shift register is
\* ABFFh, the amount 5 and A = 7Fh
C33_Witness ==
    /\ decoded_instruction = [op |-> "In", exp |-> 3]
    /\ at = "fetch"
    /\ io_ports.shift_register = 44031
    /\ io_ports.output.shift_amount = 5
    /\ cpu_state.psw.a = 127

\* C34: the memory image has exactly 5000h bytes (no byte at 5000h or above
\* ever exists) and is not mirrored: an instruction whose memory read or
\* write touches an address of 5000h or above, the second byte of a 16-bit
\* access at 4FFFh included, ends the run with a failure (a panic) and
\* leaves every byte of the image as it was. The access is the byte at HL
\* (operand M), at BC or DE (STAX, LDAX) or at the operand address (STA,
\* LDA), the word at the operand address (SHLD, LHLD), the word at SP (POP,
\* RET, XTHL, a taken Rcc) or the word at SP - 2 (PUSH, CALL, RST, a taken
\* Ccc).
C34_ImageIsNotMirrored ==
    /\ [](DOMAIN memory \subseteq 0..20479)
    /\ [][at = "execute" =>
              LET opcode == instruction[1]
                  cc     == (opcode \div 8) % 8
                  bit    == CASE cc \in {0, 1} -> 64
                              [] cc \in {2, 3} -> 1
                              [] cc \in {4, 5} -> 4
                              [] cc \in {6, 7} -> 128
                  holds  == (cpu_state.psw.flags \div bit) % 2 = cc % 2
                  sp     == cpu_state.sp
                  below  == (sp + 65534) % 65536
                  imm    == instruction[2] + 256 * instruction[3]
                  last   ==
                      CASE opcode \in MemoryOperandOpcodes ->
                               256 * cpu_state.hl.rh + cpu_state.hl.rl
                        [] opcode \in {2, 10} ->
                               256 * cpu_state.bc.rh + cpu_state.bc.rl
                        [] opcode \in {18, 26} ->
                               256 * cpu_state.de.rh + cpu_state.de.rl
                        [] opcode \in {50, 58} -> imm
                        [] opcode \in {34, 42} -> imm + 1
                        [] opcode \in {193, 209, 225, 241, 201, 227} -> sp + 1
                        [] opcode \in Group(192, 8) /\ holds -> sp + 1
                        [] opcode \in {197, 213, 229, 245, 205} \cup Group(199, 8) ->
                               below + 1
                        [] opcode \in Group(196, 8) /\ holds -> below + 1
                        [] OTHER -> 0
              IN  last >= 20480 => (at' = "panicked" /\ memory' = memory)
         ]_vars

\* LHLD 4FFFh: the second byte of the word is at 5000h, the run has
\* panicked and HL still holds 4FFFh
C34_Witness ==
    /\ at = "panicked"
    /\ decoded_instruction = [op |-> "Lhld", exp |-> 20479]
    /\ cpu_state.hl = [rh |-> 79, rl |-> 255]
    /\ cpu_state.pc = 12

\* C35: interrupts do not nest unless the program re-enables them. An
\* interrupt is injected only at a check that finds the latch set, and the
\* injection clears the latch; the latch goes from clear to set only in the
\* execution of an EI fetched from memory; a check that finds the latch
\* clear injects nothing and drops what is pending. So between a delivery
\* and the next executed EI nothing is injected, whatever sources trip.
C35_NoNestingWithoutEi ==
    /\ [][(at = "fetch" /\ injected') =>
              /\ cpu_state.inte
              /\ ~cpu_state'.inte
         ]_vars
    /\ [][(~cpu_state.inte /\ cpu_state'.inte) =>
              /\ at = "execute"
              /\ ~injected
              /\ instruction[1] = 251
              /\ decoded_instruction' = [op |-> "Ei"]
         ]_vars
    /\ [][(at = "fetch" /\ at' = "execute" /\ ~cpu_state.inte) =>
              /\ ~injected'
              /\ ~cpu_state'.inte
              /\ ~interrupt_timers'.interrupt
         ]_vars

\* EI at 0018h, then NOPs: the trip of source 1 was delivered to a handler
\* without EI, which returned into the loop; source 2 has tripped since, the
\* check has dropped it and the instruction at PC is about to execute
C35_Witness ==
    /\ at = "execute"
    /\ ~injected
    /\ fired = <<1, 2>>
    /\ ~cpu_state.inte
    /\ ~interrupt_timers.interrupt
    /\ Read8(memory, 8) = 0
    /\ Read8(memory, 24) = 251
    /\ Read8(memory, 25) = 0
    /\ cpu_state.sp = 9216
    /\ Read16(memory, 9214) \in 25..27

\* C36: an RST n (C7..FF) fetched from memory at address p, no interrupt
\* being injected, sets SP to SP-2 and, the two bytes at the new SP being in
\* the image, stores p there, the address of the RST opcode itself and not
\* p + 1, and then sets PC to 8n; nothing else in the registers changes.
C36_FetchedRstPushesOwnAddress ==
    [][(at = "execute" /\ ~injected /\ instruction[1] \in Group(199, 8)) =>
           LET p  == program_counter
               n  == (instruction[1] \div 8) % 8
               sp == (cpu_state.sp + 65534) % 65536
           IN  /\ Read8(memory, p) = instruction[1]
               /\ cpu_state.pc = p
               /\ cpu_state'.sp = sp
               /\ sp + 2 <= 20480 =>
                      /\ at' = "fetch"
                      /\ cpu_state' = [cpu_state EXCEPT !.sp = sp, !.pc = 8 * n]
                      /\ Read8(memory', sp) = p % 256
                      /\ Read8(memory', sp + 1) = p \div 256
      ]_vars

\* RST 7 fetched at 0003h with SP = 2400h: the word at 23FEh is 0003h and
\* run() has returned at the HLT at 0038h
C36_Witness ==
    /\ at = "returned"
    /\ Read8(memory, 3) = 255
    /\ cpu_state.pc = 56
    /\ cpu_state.sp = 9214
    /\ Read16(memory, 9214) = 3

\* C37: at a boundary where the opcode at PC is HLT, with an interrupt
\* pending and the enable latch set, the HLT is pre-empted: the check
\* injects RST n, which executes (SP-2 being in the image, it pushes the
\* address of the HLT and sets PC to 8n), and run() does not return in that
\* iteration. run() returns only in an iteration that fetched a HLT and
\* injected nothing.
C37_HltPreempted ==
    /\ [][(/\ at = "fetch"
           /\ cpu_state.pc + 3 <= 20480
           /\ Read8(memory, cpu_state.pc) = 118
           /\ interrupt_timers.interrupt
           /\ cpu_state.inte) =>
              /\ at' = "execute"
              /\ injected'
              /\ instruction'[1] = 199 + 8 * interrupt_timers.number
         ]_vars
    /\ [][(at = "execute" /\ injected /\ Read8(memory, cpu_state.pc) = 118) =>
              LET sp == (cpu_state.sp + 65534) % 65536
              IN  /\ at' # "returned"
                  /\ decoded_instruction' =
                         [op |-> "Rst", exp |-> interrupt_timers.number]
                  /\ sp + 2 <= 20480 =>
                         /\ at' = "fetch"
                         /\ cpu_state'.sp = sp
                         /\ Read16(memory', sp) = cpu_state.pc
                         /\ cpu_state'.pc = 8 * interrupt_timers.number
         ]_vars
    /\ [][(at # "returned" /\ at' = "returned") =>
              /\ at = "execute"
              /\ ~injected
              /\ instruction[1] = 118
              /\ Read8(memory, cpu_state.pc) = 118
         ]_vars

\* source 1 tripped in the NOP before the HLT at 0024h with the latch set:
\* RST 1 was injected and executed, the word at 23FEh is 0024h, PC is 0008h
C37_Witness ==
    /\ at = "fetch"
    /\ injected
    /\ decoded_instruction = [op |-> "Rst", exp |-> 1]
    /\ fired = <<1>>
    /\ cpu_state.pc = 8
    /\ cpu_state.sp = 9214
    /\ Read16(memory, 9214) = 36
    /\ Read8(memory, 36) = 118

\* C38: every iteration fetches three bytes at PC, whatever the length of
\* the instruction there. With PC above 4FFDh at an instruction boundary the
\* run fails (panics) in the fetch: nothing is decoded or executed, and the
\* interrupt check is not made, so the latch, the pending flag, the
\* registers, memory and ports stay as they are. Otherwise the buffer holds
\* the bytes at PC + 1 and PC + 2 behind the opcode. run() never returns with
\* PC above 4FFDh: a HLT stored at 4FFEh or 4FFFh gives no normal return.
C38_FetchReadsThreeBytes ==
    /\ [][at = "fetch" =>
              IF cpu_state.pc > 20477
              THEN /\ at' = "panicked"
                   /\ UNCHANGED <<cpu_state, interrupt_timers, memory, io_ports,
                                  instruction, decoded_instruction, injected,
                                  cycles, fired>>
              ELSE /\ at' = "execute"
                   /\ instruction'[2] = Read8(memory, cpu_state.pc + 1)
                   /\ instruction'[3] = Read8(memory, cpu_state.pc + 2)
         ]_vars
    /\ [](at = "returned" => cpu_state.pc <= 20477)

\* MVI A,76h; STA 4FFEh; JMP 4FFEh: the run panicked at PC = 4FFEh, where
\* the HLT is stored; the last instruction decoded is the JMP
C38_Witness ==
    /\ at = "panicked"
    /\ cpu_state.pc = 20478
    /\ program_counter = 20478
    /\ Read8(memory, 20478) = 118
    /\ decoded_instruction = [op |-> "Jmp", exp |-> 20478]

\* C39: nothing writes the three input latches. In every reachable state
\* input0 is 0b00001110 and input1 and input2 are 0; IN 0 (DB 00) sets A to
\* 0Eh and IN 1 and IN 2 set it to 0; OUT (D3) to any port leaves the
\* latches, and so what IN 0, IN 1 and IN 2 return, as they are.
C39_InputLatchesConstant ==
    /\ [](io_ports.input = [input0 |-> 14, input1 |-> 0, input2 |-> 0])
    /\ [][(at = "execute" /\ instruction[1] = 219 /\ instruction[2] \in {0, 1, 2}) =>
              /\ at' = "fetch"
              /\ cpu_state'.psw.a = (IF instruction[2] = 0 THEN 14 ELSE 0)
              /\ io_ports' = io_ports
         ]_vars
    /\ [][(at = "execute" /\ instruction[1] = 211) =>
              /\ io_ports'.input = io_ports.input
              /\ \A port \in {0, 1, 2} :
                     IOPortsRead(io_ports', port) = IOPortsRead(io_ports, port)
         ]_vars

\* MVI A,5Ah; IN 0: A is 0Eh
C39_Witness ==
    /\ decoded_instruction = [op |-> "In", exp |-> 0]
    /\ at = "fetch"
    /\ Read8(memory, 1) = 90
    /\ cpu_state.psw.a = 14
    /\ cpu_state.pc = 4

====
